---- MODULE Spec2Model ----
(***************************************************************************)
(* Model of the notification job execution engine of novu (apps/api).      *)
(*                                                                         *)
(* Part 1: DistributedLockService (distributed-lock.service.ts).           *)
(* One process, one DistributedLockService instance.  Every `await` of the *)
(* source is a point where other callbacks of the event loop may run, so   *)
(* every action below is the code between two awaits.  The Redlock client  *)
(* and the redis keys behind it are modelled by what the service sees of   *)
(* them: acquire() is granted or fails, a key expires after its ttl,       *)
(* unlock() deletes the key or fails, quit() closes the connection.        *)
(***************************************************************************)
EXTENDS Integers, FiniteSets, Sequences, TLC

\* ---------------------------------------------------------------- bounds
NumCalls == 2          \* applyLock invocations
NumResources == 2      \* distinct resource keys
NumShutdowns == 2      \* shutdown() invocations

Calls == 1..NumCalls
Resources == 1..NumResources
Shutdowns == 1..NumShutdowns

VARIABLES
    clientConfigured,  \* inMemoryProviderService.inMemoryProviderClient was given
    distributedLock,   \* this.distributedLock is defined
    shuttingDown,      \* this.shuttingDown
    lockCounter,       \* this.lockCounter: object, resource -> number
    redlockClient,     \* connection of the Redlock client: none/open/quitting/closed
    redisKey,          \* backend: resource -> the calls whose lock value the key holds
    callPc,            \* position of each applyLock invocation
    callResource,      \* its resource argument
    acquireOutcome,    \* what distributedLock.acquire did for it
    bodyOutcome,       \* completion of `await handler()` kept across the finally
    callResult,        \* what applyLock returned or threw to its caller
    unlockCalls,       \* number of lock.unlock() invocations of the call
    unlockOutcome,     \* how lock.unlock() settled
    expired,           \* the call's key ran out of ttl in the backend
    shutdownPc,        \* position of each shutdown() invocation
    quitCalls          \* number of distributedLock.quit() invocations

vars == <<clientConfigured, distributedLock, shuttingDown, lockCounter,
          redlockClient, redisKey, callPc, callResource, acquireOutcome,
          bodyOutcome, callResult, unlockCalls, unlockOutcome, expired,
          shutdownPc, quitCalls>>

callVars == <<callPc, callResource, acquireOutcome, bodyOutcome, callResult,
              unlockCalls, unlockOutcome, expired>>

\* ------------------------------------------------------- values
Pending == [kind |-> "pending", name |-> "none", resource |-> 0, cause |-> "none"]
Returned(v) == [kind |-> "returned", name |-> v, resource |-> 0, cause |-> "none"]
Threw(e) == [kind |-> "threw", name |-> e.name, resource |-> e.resource, cause |-> e.cause]

\* the handler's own result and error
HandlerValue == "handlerValue"
HandlerError == [name |-> "HandlerError", resource |-> 0, cause |-> "none"]
\* the error Redlock's acquire rejects with once its retries are used up
BackendLockError(r) == [name |-> "LockError", resource |-> r, cause |-> "none"]

\* ------------------------------------------------------- pure helpers
\* `!value` of areAllLocksReleased: the counters are numbers, 0 is the falsy one
Falsy(v) == v = 0

CounterOf(lc, r) == IF r \in DOMAIN lc THEN lc[r] ELSE 0

\* faulty variant: the enabled check always passes
isDistributedLockEnabled_Always == TRUE

isDistributedLockEnabled == distributedLock

areAllLocksReleased == \A r \in DOMAIN lockCounter : Falsy(lockCounter[r])

\* faulty variant: the counter of a resource is set to 1 on every acquisition
increaseLockCounter_Resets(lc, r) == (r :> 1) @@ lc

increaseLockCounter(lc, r) ==
    IF r \in DOMAIN lc /\ ~Falsy(lc[r])
    THEN [lc EXCEPT ![r] = @ + 1]
    ELSE (r :> 1) @@ lc

decreaseLockCounter(lc, r) == [lc EXCEPT ![r] = @ - 1]

\* faulty variant: lock() wraps what acquire threw in an error of its own
lockWrap(error, r) == [name |-> "LockAcquisitionError", resource |-> r, cause |-> error.name]

\* catch (error) { Logger.verbose(...); throw error; } of lock()
lockRethrow(error, r) == error

\* ------------------------------------------------------- startup
\* constructor -> startup(client): Redlock is built only when a client is given
Init ==
    /\ clientConfigured \in BOOLEAN
    /\ distributedLock = clientConfigured
    /\ redlockClient = IF clientConfigured THEN "open" ELSE "none"
    /\ shuttingDown = FALSE
    /\ lockCounter = <<>>
    /\ redisKey = [r \in Resources |-> {}]
    /\ callPc = [c \in Calls |-> "idle"]
    /\ callResource = [c \in Calls |-> 0]
    /\ acquireOutcome = [c \in Calls |-> "notRequested"]
    /\ bodyOutcome = [c \in Calls |-> Pending]
    /\ callResult = [c \in Calls |-> Pending]
    /\ unlockCalls = [c \in Calls |-> 0]
    /\ unlockOutcome = [c \in Calls |-> "none"]
    /\ expired = [c \in Calls |-> FALSE]
    /\ shutdownPc = [s \in Shutdowns |-> "idle"]
    /\ quitCalls = 0

\* ------------------------------------------------------- applyLock
\* applyLock up to its first await: the enabled check, then lock() up to
\* `await this.distributedLock.acquire([resource], ttl)`.  Disabled: the handler
\* is started at once.  A command written to a connection after its QUIT is
\* never answered, so an acquire issued during quit() can only fail.
\* Calls and resource keys are interchangeable, so they are taken in order:
\* call c starts after call c-1 has started, key r is first used after key r-1.
ApplyLock(c, r) ==
    /\ callPc[c] = "idle"
    /\ \A d \in Calls : d < c => callPc[d] # "idle"
    /\ \A q \in Resources : q < r => \E d \in Calls : callResource[d] = q
    /\ callResource' = [callResource EXCEPT ![c] = r]
    /\ IF ~isDistributedLockEnabled
       THEN /\ callPc' = [callPc EXCEPT ![c] = "body"]
            /\ UNCHANGED acquireOutcome
       ELSE /\ callPc' = [callPc EXCEPT ![c] =
                            IF redlockClient = "open" THEN "acquiring" ELSE "acquiringLate"]
            /\ acquireOutcome' = [acquireOutcome EXCEPT ![c] = "pending"]
    /\ UNCHANGED <<clientConfigured, distributedLock, shuttingDown, lockCounter,
                   redlockClient, redisKey, bodyOutcome, callResult, unlockCalls,
                   unlockOutcome, expired, shutdownPc, quitCalls>>

\* acquire resolves: lock() calls createLockRelease (counter up), applyLock gets
\* releaseLock and starts `await handler()`.
AcquireGranted(c) ==
    /\ callPc[c] = "acquiring"
    /\ redlockClient \in {"open", "quitting"}
    /\ redisKey[callResource[c]] = {}
    /\ redisKey' = [redisKey EXCEPT ![callResource[c]] = {c}]
    /\ lockCounter' = increaseLockCounter(lockCounter, callResource[c])
    /\ acquireOutcome' = [acquireOutcome EXCEPT ![c] = "granted"]
    /\ callPc' = [callPc EXCEPT ![c] = "body"]
    /\ UNCHANGED <<clientConfigured, distributedLock, shuttingDown, redlockClient,
                   callResource, bodyOutcome, callResult, unlockCalls,
                   unlockOutcome, expired, shutdownPc, quitCalls>>

\* faulty variant: lock() swallows the rejection and applyLock runs the handler
AcquireFailed_Swallowed(c) ==
    /\ callPc[c] \in {"acquiring", "acquiringLate"}
    /\ acquireOutcome' = [acquireOutcome EXCEPT ![c] = "failed"]
    /\ callPc' = [callPc EXCEPT ![c] = "body"]
    /\ UNCHANGED <<clientConfigured, distributedLock, shuttingDown, lockCounter,
                   redlockClient, redisKey, callResource, bodyOutcome, callResult,
                   unlockCalls, unlockOutcome, expired, shutdownPc, quitCalls>>

\* faulty variant: the counter goes up before acquire is awaited and is not
\* taken back when acquire rejects
AcquireFailed_Counted(c) ==
    /\ callPc[c] \in {"acquiring", "acquiringLate"}
    /\ acquireOutcome' = [acquireOutcome EXCEPT ![c] = "failed"]
    /\ lockCounter' = increaseLockCounter(lockCounter, callResource[c])
    /\ callResult' = [callResult EXCEPT ![c] =
                        Threw(lockRethrow(BackendLockError(callResource[c]), callResource[c]))]
    /\ callPc' = [callPc EXCEPT ![c] = "done"]
    /\ UNCHANGED <<clientConfigured, distributedLock, shuttingDown,
                   redlockClient, redisKey, callResource, bodyOutcome, unlockCalls,
                   unlockOutcome, expired, shutdownPc, quitCalls>>

\* acquire rejects (retries used up, or the connection went away): lock() logs and
\* rethrows, applyLock rejects before its try block.
AcquireFailed(c) ==
    /\ callPc[c] \in {"acquiring", "acquiringLate"}
    /\ acquireOutcome' = [acquireOutcome EXCEPT ![c] = "failed"]
    /\ callResult' = [callResult EXCEPT ![c] =
                        Threw(lockRethrow(BackendLockError(callResource[c]), callResource[c]))]
    /\ callPc' = [callPc EXCEPT ![c] = "done"]
    /\ UNCHANGED <<clientConfigured, distributedLock, shuttingDown, lockCounter,
                   redlockClient, redisKey, callResource, bodyOutcome, unlockCalls,
                   unlockOutcome, expired, shutdownPc, quitCalls>>

\* faulty variant: releaseLock() follows the try block instead of sitting in a
\* finally, so a throwing handler leaves applyLock without releasing
BodySettles_NoFinally(c, outcome) ==
    /\ callPc[c] = "body"
    /\ bodyOutcome' = [bodyOutcome EXCEPT ![c] = outcome]
    /\ IF acquireOutcome[c] = "notRequested" \/ outcome.kind = "threw"
       THEN /\ callResult' = [callResult EXCEPT ![c] = outcome]
            /\ callPc' = [callPc EXCEPT ![c] = "done"]
            /\ UNCHANGED unlockCalls
       ELSE /\ unlockCalls' = [unlockCalls EXCEPT ![c] = @ + 1]
            /\ callPc' = [callPc EXCEPT ![c] = "releasing"]
            /\ UNCHANGED callResult
    /\ UNCHANGED <<clientConfigured, distributedLock, shuttingDown, lockCounter,
                   redlockClient, redisKey, callResource, acquireOutcome,
                   unlockOutcome, expired, shutdownPc, quitCalls>>

\* `await handler()` settles.  Unprotected (line 114): applyLock settles the same
\* way.  Protected: the finally block calls releaseLock(), which runs up to
\* `await lock.unlock()`.
BodySettles(c, outcome) ==
    /\ callPc[c] = "body"
    /\ bodyOutcome' = [bodyOutcome EXCEPT ![c] = outcome]
    /\ IF acquireOutcome[c] = "notRequested"
       THEN /\ callResult' = [callResult EXCEPT ![c] = outcome]
            /\ callPc' = [callPc EXCEPT ![c] = "done"]
            /\ UNCHANGED unlockCalls
       ELSE /\ unlockCalls' = [unlockCalls EXCEPT ![c] = @ + 1]
            /\ callPc' = [callPc EXCEPT ![c] = "releasing"]
            /\ UNCHANGED callResult
    /\ UNCHANGED <<clientConfigured, distributedLock, shuttingDown, lockCounter,
                   redlockClient, redisKey, callResource, acquireOutcome,
                   unlockOutcome, expired, shutdownPc, quitCalls>>

\* unlock resolves: the key still held this call's value and was deleted.
\* finally of releaseLock: counter down; finally of applyLock ends: the body's
\* completion is applyLock's.
UnlockResolves(c) ==
    /\ callPc[c] = "releasing"
    /\ redlockClient = "open"
    /\ c \in redisKey[callResource[c]]
    /\ redisKey' = [redisKey EXCEPT ![callResource[c]] = {}]
    /\ lockCounter' = decreaseLockCounter(lockCounter, callResource[c])
    /\ unlockOutcome' = [unlockOutcome EXCEPT ![c] = "resolved"]
    /\ callResult' = [callResult EXCEPT ![c] = bodyOutcome[c]]
    /\ callPc' = [callPc EXCEPT ![c] = "done"]
    /\ UNCHANGED <<clientConfigured, distributedLock, shuttingDown, redlockClient,
                   callResource, acquireOutcome, bodyOutcome, unlockCalls, expired,
                   shutdownPc, quitCalls>>

\* faulty variant: the counter goes down in the try block, after unlock()
UnlockRejects_CounterKept(c) ==
    /\ callPc[c] = "releasing"
    /\ unlockOutcome' = [unlockOutcome EXCEPT ![c] = "rejected"]
    /\ callResult' = [callResult EXCEPT ![c] = bodyOutcome[c]]
    /\ callPc' = [callPc EXCEPT ![c] = "done"]
    /\ UNCHANGED <<clientConfigured, distributedLock, shuttingDown, redlockClient,
                   lockCounter, redisKey, callResource, acquireOutcome, bodyOutcome,
                   unlockCalls, expired, shutdownPc, quitCalls>>

\* faulty variant: releaseLock has no catch, unlock's rejection replaces the
\* body's completion
UnlockRejects_Propagates(c) ==
    /\ callPc[c] = "releasing"
    /\ lockCounter' = decreaseLockCounter(lockCounter, callResource[c])
    /\ unlockOutcome' = [unlockOutcome EXCEPT ![c] = "rejected"]
    /\ callResult' = [callResult EXCEPT ![c] =
                        Threw([name |-> "LockError", resource |-> callResource[c],
                               cause |-> "none"])]
    /\ callPc' = [callPc EXCEPT ![c] = "done"]
    /\ UNCHANGED <<clientConfigured, distributedLock, shuttingDown, redlockClient,
                   redisKey, callResource, acquireOutcome, bodyOutcome, unlockCalls,
                   expired, shutdownPc, quitCalls>>

\* unlock rejects (key expired or taken over, connection lost): caught and logged
\* in releaseLock, the counter goes down in its finally all the same.
UnlockRejects(c) ==
    /\ callPc[c] = "releasing"
    /\ lockCounter' = decreaseLockCounter(lockCounter, callResource[c])
    /\ unlockOutcome' = [unlockOutcome EXCEPT ![c] = "rejected"]
    /\ callResult' = [callResult EXCEPT ![c] = bodyOutcome[c]]
    /\ callPc' = [callPc EXCEPT ![c] = "done"]
    /\ UNCHANGED <<clientConfigured, distributedLock, shuttingDown, redlockClient,
                   redisKey, callResource, acquireOutcome, bodyOutcome, unlockCalls,
                   expired, shutdownPc, quitCalls>>

\* the backend drops a key whose ttl has run out (the service never extends it)
KeyExpires(r) ==
    /\ redisKey[r] # {}
    /\ redisKey' = [redisKey EXCEPT ![r] = {}]
    /\ expired' = [c \in Calls |-> expired[c] \/ c \in redisKey[r]]
    /\ UNCHANGED <<clientConfigured, distributedLock, shuttingDown, lockCounter,
                   redlockClient, callPc, callResource, acquireOutcome, bodyOutcome,
                   callResult, unlockCalls, unlockOutcome, shutdownPc, quitCalls>>

\* ------------------------------------------------------- shutdown
\* faulty variant: no shuttingDown guard around quit()
ShutdownLoop_NoGuard(s) ==
    IF ~areAllLocksReleased
    THEN /\ shutdownPc' = [shutdownPc EXCEPT ![s] = "polling"]
         /\ UNCHANGED <<distributedLock, shuttingDown, redlockClient, quitCalls>>
    ELSE IF distributedLock
    THEN /\ shuttingDown' = TRUE
         /\ quitCalls' = quitCalls + 1
         /\ redlockClient' = "quitting"
         /\ shutdownPc' = [shutdownPc EXCEPT ![s] = "quitting"]
         /\ UNCHANGED distributedLock
    ELSE /\ shuttingDown' = FALSE
         /\ distributedLock' = FALSE
         /\ shutdownPc' = [shutdownPc EXCEPT ![s] = "done"]
         /\ UNCHANGED <<redlockClient, quitCalls>>

\* shutdown() from the while test on, up to its next await or its return.
\* `this.distributedLock.quit()` on an undefined distributedLock is a TypeError
\* raised inside the try: caught, and the finally block runs.
ShutdownLoop(s) ==
    IF ~areAllLocksReleased
    THEN /\ shutdownPc' = [shutdownPc EXCEPT ![s] = "polling"]
         /\ UNCHANGED <<distributedLock, shuttingDown, redlockClient, quitCalls>>
    ELSE IF shuttingDown
    THEN /\ shutdownPc' = [shutdownPc EXCEPT ![s] = "done"]
         /\ UNCHANGED <<distributedLock, shuttingDown, redlockClient, quitCalls>>
    ELSE IF distributedLock
    THEN /\ shuttingDown' = TRUE
         /\ quitCalls' = quitCalls + 1
         /\ redlockClient' = "quitting"
         /\ shutdownPc' = [shutdownPc EXCEPT ![s] = "quitting"]
         /\ UNCHANGED distributedLock
    ELSE /\ shuttingDown' = FALSE
         /\ distributedLock' = FALSE
         /\ shutdownPc' = [shutdownPc EXCEPT ![s] = "done"]
         /\ UNCHANGED <<redlockClient, quitCalls>>

\* shutdown() is entered (invocations are interchangeable: taken in order)
ShutdownCall(s) ==
    /\ shutdownPc[s] = "idle"
    /\ \A t \in Shutdowns : t < s => shutdownPc[t] # "idle"
    /\ IF ~distributedLock
       THEN /\ shutdownPc' = [shutdownPc EXCEPT ![s] = "done"]
            /\ UNCHANGED <<distributedLock, shuttingDown, redlockClient, quitCalls>>
       ELSE ShutdownLoop(s)
    /\ UNCHANGED <<clientConfigured, lockCounter, redisKey>>
    /\ UNCHANGED callVars

\* `await setTimeout(250)` is over: the while test runs again
ShutdownWakes(s) ==
    /\ shutdownPc[s] = "polling"
    /\ ShutdownLoop(s)
    /\ UNCHANGED <<clientConfigured, lockCounter, redisKey>>
    /\ UNCHANGED callVars

\* `await this.distributedLock.quit()` settles (resolve, or reject into the
\* logging catch): the finally block clears the flag and drops the client.
QuitSettles(s) ==
    /\ shutdownPc[s] = "quitting"
    /\ shuttingDown' = FALSE
    /\ distributedLock' = FALSE
    /\ redlockClient' = "closed"
    /\ shutdownPc' = [shutdownPc EXCEPT ![s] = "done"]
    /\ UNCHANGED <<clientConfigured, lockCounter, redisKey, quitCalls>>
    /\ UNCHANGED callVars

\* ======================================================================
\* Part 2: WorkflowQueueService (send-message-in-app.usecase.ts, 340-548):
\* state.  The BullMQ queue and the use cases the service calls (RunJob,
\* SetJobAsCompleted, SetJobAsFailed, CreateExecutionDetails, QueueNextJob) are
\* modelled by what the service asks of them.
\* ======================================================================
NumJobs == 2             \* jobs of one chain: job j+1 is the next job of job j
MaxFilters == 2          \* step.filters.length
MaxChildren == 2         \* filter.children.length
MaxDelay == 1            \* delay argument of addToQueue
MaxCompletedEvents == 2  \* deliveries of one job's 'completed' event

DEFAULT_ATTEMPTS == 3

Jobs == 1..NumJobs
Attempts == 1..DEFAULT_ATTEMPTS

VARIABLES
    jobData,          \* JobEntity.step of each job: filters, shouldStopOnFail
    jobStatus,        \* job storage: status of each job
    bullState,        \* the queue's entry of each job: none/waiting/active/removed
    bullOpts,         \* JobsOptions the job was added with
    bullDelayArg,     \* delay argument addToQueue was called with, per job
    attemptsMade,     \* job.attemptsMade
    attemptLog,       \* how each attempt of the processor settled
    failedPc,         \* position of the 'failed' listener of each attempt
    completedCalls,   \* runs of jobHasCompleted per job
    setFailedCalls,   \* setJobAsFailed.execute calls per job
    lastRetryDetails, \* createExecutionDetails calls (last-retry detail) per job
    queueNextCalls,   \* queueNextJob.execute calls per parent job
    failedBeforeNext  \* the parent was FAILED in storage at each queueNextJob call

queueVars == <<jobData, jobStatus, bullState, bullOpts, bullDelayArg, attemptsMade,
               attemptLog, failedPc, completedCalls,
               setFailedCalls, lastRetryDetails, queueNextCalls, failedBeforeNext>>

\* optional values of the job data: `x?.y` yields undefined on an undefined x
Undefined == [defined |-> FALSE, items |-> <<>>]
Defined(items) == [defined |-> TRUE, items |-> items]

SeqsUpTo(S, n) == UNION {[1..k -> S] : k \in 0..n}

FilterOns == {"webhook", "payload"}
ChildrenValues == {Undefined} \cup {Defined(cs) : cs \in SeqsUpTo(FilterOns, MaxChildren)}
FiltersValues == {Undefined} \cup {Defined(fs) : fs \in SeqsUpTo(ChildrenValues, MaxFilters)}
StopOnFailValues == {"true", "false", "absent"}

\* step data of the jobs of a running chain: one shape of each kind
SampleFilters ==
    { Defined(<<Defined(<<"payload">>)>>),
      Defined(<<Undefined, Defined(<<"payload", "webhook">>)>>) }

NoOpts == [removeOnComplete |-> FALSE]

\* the queue before anything was added, for the given job data
QueueStart(data) ==
    /\ jobData = data
    /\ jobStatus = [j \in Jobs |-> "PENDING"]
    /\ bullState = [j \in Jobs |-> "none"]
    /\ bullOpts = [j \in Jobs |-> NoOpts]
    /\ bullDelayArg = [j \in Jobs |-> 0]
    /\ attemptsMade = [j \in Jobs |-> 0]
    /\ attemptLog = [j \in Jobs |-> <<>>]
    /\ failedPc = [j \in Jobs |-> [k \in Attempts |-> "none"]]
    /\ completedCalls = [j \in Jobs |-> 0]
    /\ setFailedCalls = [j \in Jobs |-> 0]
    /\ lastRetryDetails = [j \in Jobs |-> 0]
    /\ queueNextCalls = [j \in Jobs |-> 0]
    /\ failedBeforeNext = [j \in Jobs |-> TRUE]

PlainJob == [filters |-> Undefined, shouldStopOnFail |-> "absent"]

\* the queue part while another part of the engine is looked at
QueueIdle == QueueStart([j \in Jobs |-> PlainJob])

\* ======================================================================
\* Part 3: CacheService (query-set pattern): state
\* ======================================================================
NumCacheCalls == 3   \* setQuery / delQuery invocations
MaxKeyLen == 2       \* length of a scope and of a query discriminator, in tokens
MaxTtl == 4          \* options.ttl, in seconds
MaxCacheTtl == 2     \* inMemoryProviderConfig.ttl, in seconds
RandDen == 2         \* Math.random() yields k / RandDen, k in 0..RandDen-1

TTL_VARIANT_PERCENTAGE == 10   \* 0.1, in hundredths

CacheCalls == 1..NumCacheCalls

\* a key is a string of tokens: Delim stands for the text ':' + QUERY_PREFIX + '=',
\* "x" for any text without it
Delim == "D"
Plain == "x"
Tokens == {Plain, Delim}
KeyStrings == SeqsUpTo(Tokens, MaxKeyLen)

\* discriminators and scopes that do not contain the delimiter
PlainQueries == {q \in SeqsUpTo({Plain}, MaxKeyLen) : Len(q) > 0}
PlainScope == <<Plain>>

\* options?.ttl: 0 stands for no options or no ttl
TtlOptions == 0..MaxTtl
RandomDraws == 0..(RandDen - 1)

VARIABLES
    cacheClient,      \* this.client is set
    cacheTtl,         \* this.cacheTtl = inMemoryProviderConfig.ttl
    cacheScope,       \* the scope the calls of a run address
    cacheEntries,     \* backend: string keys -> remaining seconds to live
    cacheSets,        \* backend: set keys -> members and remaining seconds to live
    cachePc,          \* position of each call
    delQueries,       \* delQuery: the members smembers returned
    cacheReady,       \* inMemoryProviderService.isClientReady()
    commandsIssued,   \* commands handed to this.client so far
    lastWrite,        \* base ttl and ttl passed with the latest SET .. EX
    scans             \* delByPattern: the scan stream, its pipelines, the promise

cacheVars == <<cacheClient, cacheTtl, cacheScope, cacheEntries, cacheSets, cachePc,
               delQueries, cacheReady, commandsIssued, lastWrite, scans>>

NoWrite == [base |-> 0, ttl |-> 0]

\* stream: the scan stream; left: keys the scan has still to report; pending: the
\* pages whose pipeline has not been executed; promise: what delByPattern returned
NoScan == [stream |-> "none", left |-> {}, pending |-> {}, promise |-> "none"]

EmptyEntries == [k \in {} |-> 0]
EmptySets == [k \in {} |-> [members |-> {}, ttl |-> 0]]

\* what the constructor leaves, over an empty backend
CacheStart(scope) ==
    /\ cacheClient \in BOOLEAN
    /\ cacheTtl \in 1..MaxCacheTtl
    /\ cacheScope = scope
    /\ cacheEntries = EmptyEntries
    /\ cacheSets = EmptySets
    /\ cachePc = [c \in CacheCalls |-> "idle"]
    /\ delQueries = [c \in CacheCalls |-> {}]
    /\ cacheReady = cacheClient
    /\ commandsIssued = 0
    /\ lastWrite = NoWrite
    /\ scans = [c \in CacheCalls |-> NoScan]

\* the cache part while another part of the engine is looked at
CacheIdle == CacheStart(PlainScope) /\ cacheClient /\ cacheTtl = 1

\* everything that is not the lock service's
(***************************************************************************)
(* Part 4: the callers of the cache.  InvalidateCacheService wraps del,    *)
(* delQuery and delByPattern; a wrapper call uses the cache call of the    *)
(* same number.                                                            *)
(***************************************************************************)
NumUseCases == 1
UseCaseCalls == 1..NumUseCases
UseCaseKinds == {"RemoveIntegration", "RemoveMessage", "SendMessageInApp"}

VARIABLES
    invResult,        \* per cache call: how the InvalidateCacheService call stands
    ucKind,           \* per use case call: the use case executed
    ucPc,             \* per use case call: the await it stands at
    ucSlot,           \* per use case call: the cache call of its invalidation
    ucResult,         \* per use case call: what execute() gave its caller
    repoWrites        \* per use case call: repository writes executed

ucVars == <<ucKind, ucPc, ucSlot, ucResult, repoWrites>>

(* a reader that goes through the cache: get, on a miss the repository, then
   set or setQuery of what it read *)
VARIABLES
    readerPc,         \* where the reader stands: idle/miss/read/done
    readerKind,       \* what it reads: an entity by key or a query of a scope
    readerValue,      \* the repository state it read: writes applied, per use case
    cachedValue       \* the repository state the cached entry was built from

readerVars == <<readerPc, readerKind, readerValue, cachedValue>>

(* CreateNotificationJobs: the command it is given and what execute() gave back *)
MaxSteps == 3          \* steps of command.template
MaxFiltered == 2       \* steps the digest filter returns

VARIABLES
    jobsCommand,      \* the command, with what its collaborators will answer
    jobsResult        \* the outcome of execute(command)

builderVars == <<jobsCommand, jobsResult>>

\* a step: template is the type of step.template ("none": no template attached),
\* digestType tells whether step.metadata.type is set
StepShapes ==
    [active : BOOLEAN, template : {"channel"}, digestType : {FALSE}]
        \cup [active : BOOLEAN, template : {"digest"}, digestType : BOOLEAN]
        \cup [active : {TRUE}, template : {"none"}, digestType : {FALSE}]

FilteredShapes ==
    [active : {TRUE}, template : {"channel", "none"}, digestType : {FALSE}]

\* the steps of a list, named by where they come from and their place in it
Named(origin, shapes) ==
    [i \in DOMAIN shapes |->
        [name |-> <<origin, i>>, active |-> shapes[i].active,
         template |-> shapes[i].template, digestType |-> shapes[i].digestType]]

\* notification: the _id of the record notificationRepository.create yields,
\* "null" when it yields none; filtered: what digestFilterSteps.execute returns
Commands ==
    [steps : {Named("template", sh) : sh \in SeqsUpTo(StepShapes, MaxSteps)},
     filtered : {Named("filtered", sh) : sh \in SeqsUpTo(FilteredShapes, MaxFiltered)},
     transactionId : {"t1", "t2"},
     notification : {"null", "n1", "n2"}]

NotExecuted == [kind |-> "none", jobs |-> <<>>, filterInvoked |-> FALSE]

BuilderStart(command) ==
    /\ jobsCommand = command
    /\ jobsResult = NotExecuted

NoCommand ==
    [steps |-> <<>>, filtered |-> <<>>, transactionId |-> "t1", notification |-> "null"]

appVars == <<invResult, ucVars, builderVars, readerVars>>

CallersIdle ==
    /\ invResult = [c \in CacheCalls |-> "none"]
    /\ ucKind = [u \in UseCaseCalls |-> "none"]
    /\ ucPc = [u \in UseCaseCalls |-> "idle"]
    /\ ucSlot = [u \in UseCaseCalls |-> 0]
    /\ ucResult = [u \in UseCaseCalls |-> "none"]
    /\ repoWrites = [u \in UseCaseCalls |-> 0]
    /\ readerPc = "idle"
    /\ readerKind = "none"
    /\ readerValue = [u \in UseCaseCalls |-> 0]
    /\ cachedValue = [u \in UseCaseCalls |-> 0]

AppIdle == CallersIdle /\ BuilderStart(NoCommand)

nonLockVars == <<queueVars, cacheVars, appVars>>

allVars == <<vars, queueVars, cacheVars, appVars>>

\* ------------------------------------------------------- specification
Outcomes == {Returned(HandlerValue), Threw(HandlerError)}

Next ==
    \/ \E c \in Calls, r \in Resources : ApplyLock(c, r) /\ UNCHANGED nonLockVars
    \/ \E c \in Calls : AcquireGranted(c) /\ UNCHANGED nonLockVars
    \/ \E c \in Calls : AcquireFailed(c) /\ UNCHANGED nonLockVars
    \/ \E c \in Calls, o \in Outcomes : BodySettles(c, o) /\ UNCHANGED nonLockVars
    \/ \E c \in Calls : UnlockResolves(c) /\ UNCHANGED nonLockVars
    \/ \E c \in Calls : UnlockRejects(c) /\ UNCHANGED nonLockVars
    \/ \E r \in Resources : KeyExpires(r) /\ UNCHANGED nonLockVars
    \/ \E s \in Shutdowns : ShutdownCall(s) /\ UNCHANGED nonLockVars
    \/ \E s \in Shutdowns : ShutdownWakes(s) /\ UNCHANGED nonLockVars
    \/ \E s \in Shutdowns : QuitSettles(s) /\ UNCHANGED nonLockVars

\* applyLock is invoked again: the record of a returned invocation, whose key
\* has gone from the backend, is taken over by a new invocation, which runs up
\* to its first await as in ApplyLock.
ApplyLockAgain(c, r) ==
    /\ callPc[c] = "done"
    /\ \A q \in Resources : c \notin redisKey[q]
    /\ callResource' = [callResource EXCEPT ![c] = r]
    /\ bodyOutcome' = [bodyOutcome EXCEPT ![c] = Pending]
    /\ callResult' = [callResult EXCEPT ![c] = Pending]
    /\ unlockCalls' = [unlockCalls EXCEPT ![c] = 0]
    /\ unlockOutcome' = [unlockOutcome EXCEPT ![c] = "none"]
    /\ expired' = [expired EXCEPT ![c] = FALSE]
    /\ IF ~isDistributedLockEnabled
       THEN /\ callPc' = [callPc EXCEPT ![c] = "body"]
            /\ acquireOutcome' = [acquireOutcome EXCEPT ![c] = "notRequested"]
       ELSE /\ callPc' = [callPc EXCEPT ![c] =
                            IF redlockClient = "open" THEN "acquiring" ELSE "acquiringLate"]
            /\ acquireOutcome' = [acquireOutcome EXCEPT ![c] = "pending"]
    /\ UNCHANGED <<clientConfigured, distributedLock, shuttingDown, lockCounter,
                   redlockClient, redisKey, shutdownPc, quitCalls>>

\* the lock service with applyLock invoked over and over
LockLoopNext ==
    \/ Next
    \/ \E c \in Calls, r \in Resources : ApplyLockAgain(c, r) /\ UNCHANGED nonLockVars

\* what the event loop and the backend guarantee: a pending acquire settles, a
\* handler body terminates, an unlock returns or throws, the 250 ms timer of
\* the polling loop fires, quit() settles.  Nothing obliges a caller to invoke
\* applyLock or shutdown.
AcquireSettles(c) == (AcquireGranted(c) \/ AcquireFailed(c)) /\ UNCHANGED nonLockVars
BodyTerminates(c) == (\E o \in Outcomes : BodySettles(c, o)) /\ UNCHANGED nonLockVars
UnlockSettles(c) == (UnlockResolves(c) \/ UnlockRejects(c)) /\ UNCHANGED nonLockVars
TimerFires(s) == ShutdownWakes(s) /\ UNCHANGED nonLockVars
QuitReturns(s) == QuitSettles(s) /\ UNCHANGED nonLockVars

LockFairness ==
    /\ \A c \in Calls : WF_allVars(AcquireSettles(c))
    /\ \A c \in Calls : WF_allVars(BodyTerminates(c))
    /\ \A c \in Calls : WF_allVars(UnlockSettles(c))
    /\ \A s \in Shutdowns : WF_allVars(TimerFires(s))
    /\ \A s \in Shutdowns : WF_allVars(QuitReturns(s))

\* the lock service alone: the other parts stay as they start
LockInit == Init /\ QueueIdle /\ CacheIdle /\ AppIdle

Spec == LockInit /\ [][Next]_allVars

LockLoopSpec == LockInit /\ [][LockLoopNext]_allVars /\ LockFairness

\* ------------------------------------------------------- properties
\* a call that went through lock() and is between acquire's grant and the end
\* of its release
Holding(c) == acquireOutcome[c] = "granted" /\ callPc[c] \in {"body", "releasing"}

InBodyLocked(c) == acquireOutcome[c] # "notRequested" /\ callPc[c] = "body"

NoCallInFlight == \A c \in Calls : callPc[c] \in {"idle", "done"}

\* C1: once every applyLock call has returned or thrown (bodies resolving or
\* throwing, unlocks resolving or rejecting), the counter of every resource is
\* zero or absent.
C1_CountersZeroWhenQuiescent ==
    NoCallInFlight => \A r \in Resources : Falsy(CounterOf(lockCounter, r))

C1_Witness ==
    /\ \A c \in Calls : callPc[c] = "done"
    /\ \E c \in Calls : bodyOutcome[c].kind = "threw" /\ unlockOutcome[c] = "rejected"
    /\ \E c \in Calls : bodyOutcome[c].kind = "returned" /\ unlockOutcome[c] = "resolved"
    /\ \E r \in DOMAIN lockCounter : lockCounter[r] = 0

\* C2: a call whose acquisition succeeded invokes unlock exactly once, and only
\* after its handler has settled (resolved or thrown); a call whose acquisition
\* failed never invokes unlock.
C2_UnlockExactlyOnce ==
    \A c \in Calls :
        /\ unlockCalls[c] <= 1
        /\ (acquireOutcome[c] = "granted" /\ callPc[c] = "done") => unlockCalls[c] = 1
        /\ (acquireOutcome[c] = "granted" /\ callPc[c] = "releasing") => unlockCalls[c] = 1
        /\ acquireOutcome[c] # "granted" => unlockCalls[c] = 0
        /\ unlockCalls[c] > 0 => bodyOutcome[c].kind \in {"returned", "threw"}

C2_Witness ==
    /\ \E c \in Calls : /\ acquireOutcome[c] = "granted" /\ callPc[c] = "done"
                         /\ bodyOutcome[c].kind = "threw" /\ unlockCalls[c] = 1
    /\ \E c \in Calls : /\ acquireOutcome[c] = "failed" /\ callPc[c] = "done"
                         /\ unlockCalls[c] = 0

\* C3 (as claimed): two calls that went through the lock never run their
\* handler bodies on the same resource at the same time, whatever the ttl.
C3_NeverOverlap ==
    \A c, d \in Calls :
        (c # d /\ InBodyLocked(c) /\ InBodyLocked(d)) => callResource[c] # callResource[d]

\* C3 (amended): two calls that went through the lock run their bodies on the
\* same resource at the same time only if the backend has expired the key of
\* one of them; a key is held by at most one call, and only by a call on that
\* very resource, so a call waits only for a holder of its own resource: its
\* acquire can be granted whenever its own key is free.
C3_NoOverlapUnlessExpired ==
    /\ \A c, d \in Calls :
          (c # d /\ InBodyLocked(c) /\ InBodyLocked(d) /\ callResource[c] = callResource[d])
              => (expired[c] \/ expired[d])
    /\ \A r \in Resources :
          /\ Cardinality(redisKey[r]) <= 1
          /\ \A c \in redisKey[r] : callResource[c] = r
    /\ \A c \in Calls :
          (callPc[c] = "acquiring" /\ redlockClient = "open" /\ redisKey[callResource[c]] = {})
              => ENABLED AcquireGranted(c)

C3_Witness ==
    \E c, d \in Calls :
        /\ c # d /\ callResource[c] = callResource[d]
        /\ InBodyLocked(c) /\ ~expired[c] /\ acquireOutcome[c] = "granted"
        /\ callPc[d] = "acquiring"

\* C4: whenever a shutdown() call on an enabled lock manager returns, every
\* counter is zero at that moment.
C4_ShutdownReturnsWithCountersZero ==
    [][\A s \in Shutdowns :
          (/\ shutdownPc[s] # "done" /\ shutdownPc'[s] = "done"
           /\ (distributedLock \/ shutdownPc[s] # "idle"))
              => areAllLocksReleased']_vars

\* C5: on an enabled lock manager quit() is invoked at most once, and exactly
\* once as soon as any shutdown() call has returned, however many shutdown()
\* calls run concurrently.
C5_QuitExactlyOnce ==
    /\ quitCalls <= 1
    /\ (clientConfigured /\ \E s \in Shutdowns : shutdownPc[s] \in {"quitting", "done"})
          => quitCalls = 1

C5_Witness ==
    /\ redlockClient = "closed"
    /\ quitCalls = 1
    /\ \E s, t \in Shutdowns : shutdownPc[s] = "done" /\ shutdownPc[t] = "polling"

\* C6: while quit() is in progress every counter is zero (no lock is held or
\* becomes held between the start of quit() and the end of shutdown()).
C6_NoLockWhileQuitting ==
    (\E s \in Shutdowns : shutdownPc[s] = "quitting") => areAllLocksReleased

\* C7: once shutdown() has completed and the client is gone, no call holds an
\* acquired and not yet released lock.
C7_NoLockAfterShutdown ==
    (redlockClient = "closed" /\ \E s \in Shutdowns : shutdownPc[s] = "done")
        => \A c \in Calls : ~Holding(c)

\* C8: with no client configured applyLock starts the handler at once, settles
\* as the handler does, issues no acquire and no unlock and leaves lockCounter
\* as it was; shutdown() returns at once without polling and without quit().
C8_DisabledIsUnprotectedPassThrough ==
    ~clientConfigured =>
        /\ DOMAIN lockCounter = {}
        /\ quitCalls = 0
        /\ redlockClient = "none"
        /\ \A r \in Resources : redisKey[r] = {}
        /\ \A s \in Shutdowns : shutdownPc[s] \in {"idle", "done"}
        /\ \A c \in Calls :
              /\ callPc[c] \in {"idle", "body", "done"}
              /\ acquireOutcome[c] = "notRequested"
              /\ unlockCalls[c] = 0
              /\ callPc[c] = "done" =>
                    (callResult[c] = bodyOutcome[c] /\ callResult[c] \in Outcomes)

C8_Witness ==
    /\ ~clientConfigured
    /\ \E c \in Calls : callPc[c] = "done" /\ callResult[c] = Returned(HandlerValue)
    /\ \E c \in Calls : callPc[c] = "done" /\ callResult[c] = Threw(HandlerError)
    /\ \E s \in Shutdowns : shutdownPc[s] = "done"

C10_UnlockFailureNotPropagated ==
    [][\A c \in Calls :
          (unlockOutcome[c] = "none" /\ unlockOutcome'[c] # "none")
              => /\ callPc'[c] = "done"
                 /\ callResult'[c] = bodyOutcome[c]
                 /\ bodyOutcome[c] \in Outcomes
                 /\ lockCounter' = [lockCounter EXCEPT ![callResource[c]] = @ - 1]]_vars

C10_Witness ==
    /\ \E c \in Calls : /\ unlockOutcome[c] = "rejected"
                         /\ callResult[c] = Threw(HandlerError)
    /\ \E c \in Calls : /\ unlockOutcome[c] = "rejected"
                         /\ callResult[c] = Returned(HandlerValue)

\* ======================================================================
\* Part 2: WorkflowQueueService: operations
\* ======================================================================
\* truthiness of what Array.prototype.some and `?.` yield
Truthy(v) == v = "true"

\* filter.children?.some((child) => child.on === onFilter)
childrenSome(children, onFilter) ==
    IF ~children.defined THEN "undefined"
    ELSE IF \E i \in 1..Len(children.items) : children.items[i] = onFilter
         THEN "true" ELSE "false"

\* faulty variant: only the first filter of the step is looked at
stepContainsFilter_FirstOnly(step, onFilter) ==
    IF ~step.filters.defined THEN "undefined"
    ELSE IF Len(step.filters.items) > 0
            /\ Truthy(childrenSome(step.filters.items[1], onFilter))
         THEN "true" ELSE "false"

\* data.step.filters?.some((filter) => filter.children?.some(...))
stepContainsFilter(step, onFilter) ==
    IF ~step.filters.defined THEN "undefined"
    ELSE IF \E i \in 1..Len(step.filters.items) :
                Truthy(childrenSome(step.filters.items[i], onFilter))
         THEN "true" ELSE "false"

BaseOptions(delay) == [removeOnComplete |-> TRUE, removeOnFail |-> TRUE, delay |-> delay]

WebhookBackoff == [backoff |-> "webhookFilterBackoff", attempts |-> DEFAULT_ATTEMPTS]

\* the JobsOptions addToQueue hands to bullMqService.add
addToQueueOptions(step, delay) ==
    IF Truthy(stepContainsFilter(step, "webhook"))
    THEN BaseOptions(delay) @@ WebhookBackoff
    ELSE BaseOptions(delay)

\* addToQueue(id, data, delay): the job enters the queue with these options
addToQueue(j, delay) ==
    /\ bullState' = [bullState EXCEPT ![j] = "waiting"]
    /\ bullOpts' = [bullOpts EXCEPT ![j] = addToQueueOptions(jobData[j], delay)]
    /\ bullDelayArg' = [bullDelayArg EXCEPT ![j] = delay]

\* errors a step can fail with, and RunJob.shouldBackoff's classification of them
WebhookFilterError == "webhookFilterFailed"
TerminalError == "sendFailed"
StepErrors == {WebhookFilterError, TerminalError}

shouldBackoff(error) == error = WebhookFilterError

\* the queue retries a failed job while its attempts option allows another one
bullRetries(opts, made) == "attempts" \in DOMAIN opts /\ made < opts.attempts

\* faulty variant: the last retry is taken to be the one before the ceiling
lastWebhookFilterRetry_OffByOne(made, hasToBackoff) ==
    made = DEFAULT_ATTEMPTS - 1 /\ hasToBackoff

\* job.attemptsMade === this.DEFAULT_ATTEMPTS && hasToBackoff
lastWebhookFilterRetry(made, hasToBackoff) == made = DEFAULT_ATTEMPTS /\ hasToBackoff

\* !job?.data?.step?.shouldStopOnFail
continuesOnFail(step) == step.shouldStopOnFail # "true"

\* the trigger queues the first job of the chain
Trigger(delay) ==
    /\ bullState[1] = "none"
    /\ addToQueue(1, delay)
    /\ UNCHANGED <<jobData, jobStatus, attemptsMade, attemptLog, failedPc,
                   completedCalls, setFailedCalls, lastRetryDetails, queueNextCalls,
                   failedBeforeNext>>

\* the worker claims the job and its processor starts runJob.execute, which
\* puts the job in status RUNNING
WorkerPicks(j) ==
    /\ bullState[j] = "waiting"
    /\ bullState' = [bullState EXCEPT ![j] = "active"]
    /\ attemptsMade' = [attemptsMade EXCEPT ![j] = @ + 1]
    /\ jobStatus' = [jobStatus EXCEPT ![j] = "RUNNING"]
    /\ UNCHANGED <<jobData, bullOpts, bullDelayArg, attemptLog, failedPc,
                   completedCalls, setFailedCalls, lastRetryDetails, queueNextCalls,
                   failedBeforeNext>>

\* runJob.execute resolves: the processor's promise resolves, the queue drops the
\* job (removeOnComplete) and emits 'completed'
ProcessorResolves(j) ==
    /\ bullState[j] = "active"
    /\ bullState' = [bullState EXCEPT ![j] = "removed"]
    /\ attemptLog' = [attemptLog EXCEPT ![j] = Append(@, "completed")]
    /\ UNCHANGED <<jobData, jobStatus, bullOpts, bullDelayArg, attemptsMade, failedPc,
                   completedCalls, setFailedCalls, lastRetryDetails, queueNextCalls,
                   failedBeforeNext>>

\* faulty variant: the listener has no branch for errors that are not
\* backoff-eligible
failedListenerStart_NoTerminalBranch(made, error) ==
    IF lastWebhookFilterRetry(made, shouldBackoff(error)) THEN "last" ELSE "done"

\* jobHasFailed up to its first await: where the listener of an attempt stands
\* when emit('failed') returns
failedListenerStart(made, error) ==
    IF ~shouldBackoff(error) THEN "failing"
    ELSE IF lastWebhookFilterRetry(made, shouldBackoff(error)) THEN "last"
    ELSE "done"

\* runJob.execute rejects: the queue schedules a retry or drops the job
\* (removeOnFail), and emits 'failed' with the job as it stands at this attempt;
\* the listener runs up to its first await inside the emit
ProcessorRejects(j, error) ==
    /\ bullState[j] = "active"
    /\ bullState' = [bullState EXCEPT ![j] =
                        IF bullRetries(bullOpts[j], attemptsMade[j])
                        THEN "waiting" ELSE "removed"]
    /\ attemptLog' = [attemptLog EXCEPT ![j] = Append(@, error)]
    /\ failedPc' = [failedPc EXCEPT ![j][attemptsMade[j]] =
                       failedListenerStart(attemptsMade[j], error)]
    /\ UNCHANGED <<jobData, jobStatus, bullOpts, bullDelayArg, attemptsMade,
                   completedCalls, setFailedCalls, lastRetryDetails, queueNextCalls,
                   failedBeforeNext>>

\* faulty variant: the completion listener also queues the next job
JobHasCompleted_QueuesNext(j) ==
    /\ Len(attemptLog[j]) > 0
    /\ attemptLog[j][Len(attemptLog[j])] = "completed"
    /\ completedCalls[j] < MaxCompletedEvents
    /\ completedCalls' = [completedCalls EXCEPT ![j] = @ + 1]
    /\ jobStatus' = [jobStatus EXCEPT ![j] = "COMPLETED"]
    /\ queueNextCalls' = [queueNextCalls EXCEPT ![j] = @ + 1]
    /\ IF j + 1 \in Jobs /\ bullState[j + 1] = "none"
       THEN addToQueue(j + 1, 0)
       ELSE UNCHANGED <<bullState, bullOpts, bullDelayArg>>
    /\ UNCHANGED <<jobData, attemptsMade, attemptLog, failedPc, setFailedCalls,
                   lastRetryDetails, failedBeforeNext>>

\* 'completed' listener: jobHasCompleted -> setJobAsCompleted.execute.  The event
\* of one job may be delivered more than once.
JobHasCompleted(j) ==
    /\ Len(attemptLog[j]) > 0
    /\ attemptLog[j][Len(attemptLog[j])] = "completed"
    /\ completedCalls[j] < MaxCompletedEvents
    /\ completedCalls' = [completedCalls EXCEPT ![j] = @ + 1]
    /\ jobStatus' = [jobStatus EXCEPT ![j] = "COMPLETED"]
    /\ UNCHANGED <<jobData, bullState, bullOpts, bullDelayArg, attemptsMade,
                   attemptLog, failedPc, setFailedCalls, lastRetryDetails,
                   queueNextCalls, failedBeforeNext>>

\* jobHasFailed, error not backoff-eligible: setJobAsFailed.execute completes;
\* lastWebhookFilterRetry is then false and the listener ends
JobHasFailed(j, k) ==
    /\ failedPc[j][k] = "failing"
    /\ jobStatus' = [jobStatus EXCEPT ![j] = "FAILED"]
    /\ setFailedCalls' = [setFailedCalls EXCEPT ![j] = @ + 1]
    /\ failedPc' = [failedPc EXCEPT ![j][k] =
                       IF lastWebhookFilterRetry(k, shouldBackoff(attemptLog[j][k]))
                       THEN "last" ELSE "done"]
    /\ UNCHANGED <<jobData, bullState, bullOpts, bullDelayArg, attemptsMade,
                   attemptLog, completedCalls, lastRetryDetails, queueNextCalls,
                   failedBeforeNext>>

\* faulty variant: handleLastFailedWebhookFilter does not write the status
LastSetFailed_Skipped(j, k) ==
    /\ failedPc[j][k] = "last"
    /\ failedPc' = [failedPc EXCEPT ![j][k] = "marked"]
    /\ UNCHANGED <<jobData, jobStatus, bullState, bullOpts, bullDelayArg,
                   attemptsMade, attemptLog, completedCalls, setFailedCalls,
                   lastRetryDetails, queueNextCalls, failedBeforeNext>>

\* handleLastFailedWebhookFilter: await setJobAsFailed.execute
LastSetFailed(j, k) ==
    /\ failedPc[j][k] = "last"
    /\ jobStatus' = [jobStatus EXCEPT ![j] = "FAILED"]
    /\ setFailedCalls' = [setFailedCalls EXCEPT ![j] = @ + 1]
    /\ failedPc' = [failedPc EXCEPT ![j][k] = "marked"]
    /\ UNCHANGED <<jobData, bullState, bullOpts, bullDelayArg, attemptsMade,
                   attemptLog, completedCalls, lastRetryDetails, queueNextCalls,
                   failedBeforeNext>>

\* handleLastFailedWebhookFilter: await createExecutionDetails.execute
LastCreateDetails(j, k) ==
    /\ failedPc[j][k] = "marked"
    /\ lastRetryDetails' = [lastRetryDetails EXCEPT ![j] = @ + 1]
    /\ failedPc' = [failedPc EXCEPT ![j][k] = "detailed"]
    /\ UNCHANGED <<jobData, jobStatus, bullState, bullOpts, bullDelayArg,
                   attemptsMade, attemptLog, completedCalls, setFailedCalls,
                   queueNextCalls, failedBeforeNext>>

\* queueNextJob.execute({parentId}): the job whose parent is j, if there is one,
\* is handed to addToQueue; the steps here carry no delay or digest metadata, so
\* it is queued without delay
queueNextJob(j) ==
    /\ queueNextCalls' = [queueNextCalls EXCEPT ![j] = @ + 1]
    /\ failedBeforeNext' = [failedBeforeNext EXCEPT ![j] = @ /\ jobStatus[j] = "FAILED"]
    /\ IF j + 1 \in Jobs /\ bullState[j + 1] = "none"
       THEN addToQueue(j + 1, 0)
       ELSE UNCHANGED <<bullState, bullOpts, bullDelayArg>>

\* faulty variant: the next job is queued whatever shouldStopOnFail says
LastQueueNext_IgnoresStop(j, k) ==
    /\ failedPc[j][k] = "detailed"
    /\ failedPc' = [failedPc EXCEPT ![j][k] = "done"]
    /\ queueNextJob(j)
    /\ UNCHANGED <<jobData, jobStatus, attemptsMade, attemptLog, completedCalls,
                   setFailedCalls, lastRetryDetails>>

\* handleLastFailedWebhookFilter: the shouldStopOnFail test and queueNextJob
LastQueueNext(j, k) ==
    /\ failedPc[j][k] = "detailed"
    /\ failedPc' = [failedPc EXCEPT ![j][k] = "done"]
    /\ IF continuesOnFail(jobData[j])
       THEN queueNextJob(j)
       ELSE UNCHANGED <<bullState, bullOpts, bullDelayArg, queueNextCalls,
                        failedBeforeNext>>
    /\ UNCHANGED <<jobData, jobStatus, attemptsMade, attemptLog, completedCalls,
                   setFailedCalls, lastRetryDetails>>

\* ------------------------------------------------------- specifications
Delays == 0..MaxDelay

\* the lock service as it starts, enabled
LockIdle == Init /\ clientConfigured

nonQueueVars == <<vars, cacheVars, appVars>>

SampleSteps == [filters : SampleFilters, shouldStopOnFail : StopOnFailValues]

QueueInit == LockIdle /\ CacheIdle /\ AppIdle /\ \E data \in [Jobs -> SampleSteps] : QueueStart(data)

QueueNext ==
    \/ \E d \in Delays : Trigger(d) /\ UNCHANGED nonQueueVars
    \/ \E j \in Jobs : WorkerPicks(j) /\ UNCHANGED nonQueueVars
    \/ \E j \in Jobs : ProcessorResolves(j) /\ UNCHANGED nonQueueVars
    \/ \E j \in Jobs, e \in StepErrors : ProcessorRejects(j, e) /\ UNCHANGED nonQueueVars
    \/ \E j \in Jobs : JobHasCompleted(j) /\ UNCHANGED nonQueueVars
    \/ \E j \in Jobs, k \in Attempts : JobHasFailed(j, k) /\ UNCHANGED nonQueueVars
    \/ \E j \in Jobs, k \in Attempts : LastSetFailed(j, k) /\ UNCHANGED nonQueueVars
    \/ \E j \in Jobs, k \in Attempts : LastCreateDetails(j, k) /\ UNCHANGED nonQueueVars
    \/ \E j \in Jobs, k \in Attempts : LastQueueNext(j, k) /\ UNCHANGED nonQueueVars

QueueSpec == QueueInit /\ [][QueueNext]_allVars

\* what the worker and the event loop guarantee: a waiting job is picked, the
\* processor's promise settles, and every await of the failure listener
\* (setJobAsFailed, createExecutionDetails, queueNextJob) settles
AttemptStarts(j) == WorkerPicks(j) /\ UNCHANGED nonQueueVars
AttemptSettles(j) ==
    (ProcessorResolves(j) \/ \E e \in StepErrors : ProcessorRejects(j, e))
        /\ UNCHANGED nonQueueVars
ListenerAdvances(j, k) ==
    (JobHasFailed(j, k) \/ LastSetFailed(j, k) \/ LastCreateDetails(j, k)
        \/ LastQueueNext(j, k)) /\ UNCHANGED nonQueueVars

QueueFairness ==
    /\ \A j \in Jobs : WF_allVars(AttemptStarts(j))
    /\ \A j \in Jobs : WF_allVars(AttemptSettles(j))
    /\ \A j \in Jobs, k \in Attempts : WF_allVars(ListenerAdvances(j, k))

QueueFairSpec == QueueInit /\ [][QueueNext]_allVars /\ QueueFairness

\* addToQueue alone, over every shape of step data within the bounds
AllSteps == [filters : FiltersValues, shouldStopOnFail : StopOnFailValues]

AddToQueueInit ==
    LockIdle /\ CacheIdle /\ AppIdle /\ \E step \in AllSteps :
                   QueueStart([j \in Jobs |-> IF j = 1 THEN step ELSE PlainJob])

AddToQueueNext == \E d \in Delays : Trigger(d) /\ UNCHANGED nonQueueVars

AddToQueueSpec == AddToQueueInit /\ [][AddToQueueNext]_allVars

\* ======================================================================
\* Part 2: WorkflowQueueService: properties
\* ======================================================================
\* read off the step data directly: some filter has a child with on = 'webhook'
HasWebhookChild(step) ==
    /\ step.filters.defined
    /\ \E i \in 1..Len(step.filters.items) :
          /\ step.filters.items[i].defined
          /\ \E c \in 1..Len(step.filters.items[i].items) :
                step.filters.items[i].items[c] = "webhook"

AttemptsSettled(j) == Len(attemptLog[j])

AllBackoffEligible(j) ==
    \A i \in 1..Len(attemptLog[j]) : shouldBackoff(attemptLog[j][i])

\* the listener of attempt k has got past its set-job-as-failed call
PastSetFailed(j, k) == failedPc[j][k] \in {"marked", "detailed", "done"}

\* C11: a job queued with a webhook filter whose every attempt fails with a
\* backoff-eligible error is attempted DEFAULT_ATTEMPTS times and no more: it
\* stays queued for another attempt and is not marked FAILED after the first and
\* the second failure, and after the third it leaves the queue and the failure
\* listener marks it FAILED.
C11_ThreeAttemptsThenFailed ==
    \A j \in Jobs :
        (bullState[j] # "none" /\ HasWebhookChild(jobData[j]) /\ AllBackoffEligible(j)) =>
            /\ attemptsMade[j] <= DEFAULT_ATTEMPTS
            /\ AttemptsSettled(j) < DEFAULT_ATTEMPTS =>
                  /\ bullState[j] \in {"waiting", "active"}
                  /\ jobStatus[j] # "FAILED"
                  /\ setFailedCalls[j] = 0
            /\ AttemptsSettled(j) = DEFAULT_ATTEMPTS =>
                  /\ bullState[j] = "removed"
                  /\ failedPc[j][DEFAULT_ATTEMPTS] # "none"
                  /\ PastSetFailed(j, DEFAULT_ATTEMPTS) => jobStatus[j] = "FAILED"

C11_Witness ==
    \E j \in Jobs :
        /\ HasWebhookChild(jobData[j])
        /\ AllBackoffEligible(j)
        /\ attemptsMade[j] = DEFAULT_ATTEMPTS
        /\ AttemptsSettled(j) = DEFAULT_ATTEMPTS
        /\ failedPc[j][DEFAULT_ATTEMPTS] = "done"
        /\ jobStatus[j] = "FAILED"

LastFailureBackoffEligible(j) ==
    /\ AttemptsSettled(j) = DEFAULT_ATTEMPTS
    /\ shouldBackoff(attemptLog[j][DEFAULT_ATTEMPTS])

TerminalFailure(j, k) ==
    /\ k <= Len(attemptLog[j])
    /\ attemptLog[j][k] \in StepErrors
    /\ ~shouldBackoff(attemptLog[j][k])

\* set-job-as-failed calls the listeners of job j have completed, by their positions
SetFailedDone(j) ==
    Cardinality({k \in Attempts : TerminalFailure(j, k) /\ failedPc[j][k] = "done"})
    + (IF LastFailureBackoffEligible(j) /\ PastSetFailed(j, DEFAULT_ATTEMPTS) THEN 1 ELSE 0)

\* C13: the listener of a failure that is not backoff-eligible marks the job
\* FAILED on that very failure, at whatever attempt it happens: it makes one
\* set-job-as-failed call, the job reads FAILED when it ends (as long as the job
\* has not been picked up again), and it never enters the last-retry handling,
\* so no last-retry execution detail comes from it.
C13_TerminalFailureMarksFailed ==
    \A j \in Jobs :
        /\ setFailedCalls[j] = SetFailedDone(j)
        /\ \A k \in Attempts :
              TerminalFailure(j, k) =>
                  /\ failedPc[j][k] \in {"failing", "done"}
                  /\ (failedPc[j][k] = "done" /\ attemptsMade[j] = k) =>
                        jobStatus[j] = "FAILED"
        /\ lastRetryDetails[j] > 0 => LastFailureBackoffEligible(j)

C13_Witness ==
    \E j \in Jobs :
        /\ TerminalFailure(j, 2)
        /\ attemptsMade[j] = 2
        /\ failedPc[j][2] = "done"
        /\ jobStatus[j] = "FAILED"
        /\ lastRetryDetails[j] = 0

\* the last attempt of job j failed with a terminal error and its listener is through
TerminallyFailed(j) ==
    /\ AttemptsSettled(j) > 0
    /\ AttemptsSettled(j) = attemptsMade[j]
    /\ TerminalFailure(j, AttemptsSettled(j))
    /\ bullState[j] = "removed"
    /\ failedPc[j][AttemptsSettled(j)] = "done"

\* C14: when a job has failed with a terminal error and its failure listener has
\* finished, the next job of the chain has been queued, after the FAILED mark,
\* if the step does not declare stop-on-fail, and has not been queued if it does.
C14_TerminalFailureContinuesChain ==
    \A j \in Jobs :
        (j + 1 \in Jobs /\ TerminallyFailed(j)) =>
            IF continuesOnFail(jobData[j])
            THEN bullState[j + 1] # "none" /\ failedBeforeNext[j]
            ELSE bullState[j + 1] = "none"

\* C15: the failure handler invokes queue-next-job for a job, and so queues the
\* job's successor, only with the job's set-job-as-failed call completed and the
\* job reading FAILED in job storage at the moment of the call.
C15_NextOnlyAfterFailedWritten ==
    \A j \in Jobs :
        /\ queueNextCalls[j] > 0 => (setFailedCalls[j] > 0 /\ failedBeforeNext[j])
        /\ (j + 1 \in Jobs /\ bullState[j + 1] # "none") =>
              (queueNextCalls[j] > 0 /\ setFailedCalls[j] > 0 /\ failedBeforeNext[j])

C15_Witness ==
    \E j \in Jobs :
        /\ j + 1 \in Jobs
        /\ queueNextCalls[j] = 1
        /\ bullState[j + 1] = "waiting"
        /\ jobStatus[j] = "FAILED"

\* C16: addToQueue submits the job with removeOnComplete and removeOnFail set and
\* with the delay it was given; the options carry backoff type
\* 'webhookFilterBackoff' and attempts = DEFAULT_ATTEMPTS exactly when some filter
\* of the step has a child with on = 'webhook', and neither key otherwise.
C16_AddToQueueOptions ==
    \A j \in Jobs :
        bullState[j] # "none" =>
            /\ bullOpts[j].removeOnComplete
            /\ bullOpts[j].removeOnFail
            /\ bullOpts[j].delay = bullDelayArg[j]
            /\ IF HasWebhookChild(jobData[j])
               THEN /\ DOMAIN bullOpts[j] =
                          {"removeOnComplete", "removeOnFail", "delay", "backoff", "attempts"}
                    /\ bullOpts[j].backoff = "webhookFilterBackoff"
                    /\ bullOpts[j].attempts = 3
               ELSE DOMAIN bullOpts[j] = {"removeOnComplete", "removeOnFail", "delay"}

C16_Witness ==
    /\ bullState[1] = "waiting"
    /\ jobData[1].filters.defined
    /\ Len(jobData[1].filters.items) = MaxFilters
    /\ ~jobData[1].filters.items[1].defined
    /\ HasWebhookChild(jobData[1])
    /\ bullOpts[1].attempts = 3
    /\ bullOpts[1].delay = MaxDelay

\* C17: a run of the completion listener leaves the job COMPLETED in job storage
\* and changes no other job's status and nothing in the queue; run for a job
\* that already reads COMPLETED it leaves job storage as it is.
C17_CompletionIdempotent ==
    [][\A j \in Jobs :
          completedCalls'[j] = completedCalls[j] + 1 =>
              /\ jobStatus'[j] = "COMPLETED"
              /\ \A i \in Jobs \ {j} : jobStatus'[i] = jobStatus[i]
              /\ jobStatus[j] = "COMPLETED" => jobStatus' = jobStatus
              /\ UNCHANGED <<bullState, bullOpts, queueNextCalls, setFailedCalls,
                             lastRetryDetails>>]_allVars

C17_Witness ==
    \E j \in Jobs :
        /\ completedCalls[j] = 2
        /\ jobStatus[j] = "COMPLETED"
        /\ \E i \in Jobs \ {j} : jobStatus[i] = "FAILED"

\* ======================================================================
\* Part 3: CacheService (query-set pattern): operations
\* ======================================================================
Min(S) == CHOOSE i \in S : \A j \in S : i <= j

\* position of the first delimiter of key at or after from, Len(key) + 1 if none
NextDelim(key, from) ==
    Min({i \in from..Len(key) : key[i] = Delim} \cup {Len(key) + 1})

\* key.split(keyDelimiter): keyParts[0] and keyParts[1]
splitKey(key) ==
    LET first == NextDelim(key, 1)
        second == NextDelim(key, first + 1)
    IN  [credentials |-> SubSeq(key, 1, first - 1),
         query |-> IF first > Len(key) THEN Undefined
                   ELSE SubSeq(key, first + 1, second - 1)]

\* `${key}:${QUERY_PREFIX}=${query}`
queryKey(key, query) == key \o <<Delim>> \o query

\* Math.floor(num - (0.1 * num) / 2 + 0.1 * num * Math.random()),
\* Math.random() = draw / RandDen
ttlVariant(num, draw) ==
    (num * (200 * RandDen - TTL_VARIANT_PERCENTAGE * RandDen
            + 2 * TTL_VARIANT_PERCENTAGE * draw))
    \div (200 * RandDen)

\* options?.ttl || this.cacheTtl
baseTtl(option) == IF option # 0 THEN option ELSE cacheTtl

\* getTtlInSeconds(options): the variant of options?.ttl || this.cacheTtl
getTtlInSeconds(option, draw) ==
    ttlVariant(baseTtl(option), draw)

MembersOf(key) == IF key \in DOMAIN cacheSets THEN cacheSets[key].members ELSE {}

\* calls are numbered in the order they are made
NextCacheCall(c) ==
    /\ cachePc[c] = "idle"
    /\ \A d \in CacheCalls : d < c => cachePc[d] # "idle"

\* a client that is not ready keeps the commands it is given in its offline
\* queue: they are issued, but do not reach the backend
BackendUp == cacheClient /\ cacheReady

\* set(key, value, {ttl: option}): this.client?.set(key, value, 'EX', ttl), not
\* awaited
Set(c, key, option, draw) ==
    /\ NextCacheCall(c)
    /\ cachePc' = [cachePc EXCEPT ![c] = "setDone"]
    /\ IF cacheClient
       THEN /\ commandsIssued' = commandsIssued + 1
            /\ lastWrite' = [base |-> baseTtl(option),
                             ttl |-> getTtlInSeconds(option, draw)]
       ELSE UNCHANGED <<commandsIssued, lastWrite>>
    /\ cacheEntries' =
           IF BackendUp /\ getTtlInSeconds(option, draw) > 0
           THEN [k \in DOMAIN cacheEntries \cup {key} |->
                    IF k = key THEN getTtlInSeconds(option, draw) ELSE cacheEntries[k]]
           ELSE cacheEntries
    /\ UNCHANGED <<cacheClient, cacheTtl, cacheScope, cacheSets, delQueries, cacheReady, scans>>

\* setQuery(key, value, {ttl: option}): one pipeline of SADD, EXPIRE and SET .. EX;
\* the two getTtlInSeconds calls draw their random numbers separately, and the
\* backend refuses SET .. EX 0
SetQuery(c, key, option, draw1, draw2) ==
    /\ NextCacheCall(c)
    /\ cachePc' = [cachePc EXCEPT ![c] = "setDone"]
    /\ IF cacheClient
       THEN /\ commandsIssued' = commandsIssued + 3
            /\ lastWrite' = [base |-> baseTtl(option),
                             ttl |-> getTtlInSeconds(option, draw2)]
       ELSE UNCHANGED <<commandsIssued, lastWrite>>
    /\ IF BackendUp
       THEN LET parts == splitKey(key)
                setTtl == cacheTtl + getTtlInSeconds(option, draw1)
                entryTtl == getTtlInSeconds(option, draw2)
            IN  /\ cacheSets' =
                       [k \in DOMAIN cacheSets \cup {parts.credentials} |->
                           IF k = parts.credentials
                           THEN [members |-> MembersOf(k) \cup {parts.query},
                                 ttl |-> setTtl]
                           ELSE cacheSets[k]]
                /\ cacheEntries' =
                       IF entryTtl > 0
                       THEN [k \in DOMAIN cacheEntries \cup {key} |->
                                IF k = key THEN entryTtl ELSE cacheEntries[k]]
                       ELSE cacheEntries
       ELSE UNCHANGED <<cacheEntries, cacheSets>>
    /\ UNCHANGED <<cacheClient, cacheTtl, cacheScope, delQueries, cacheReady, scans>>

\* delQuery(key) up to the end of `await this.client.smembers(key)`, or to its
\* return when there is no client or no member; on a client that is not ready
\* the smembers stays unanswered
DelQueryRead(c) ==
    /\ NextCacheCall(c)
    /\ IF ~cacheClient
       THEN /\ cachePc' = [cachePc EXCEPT ![c] = "delDone"]
            /\ UNCHANGED <<delQueries, commandsIssued>>
       ELSE /\ commandsIssued' = commandsIssued + 1
            /\ IF ~cacheReady
               THEN /\ cachePc' = [cachePc EXCEPT ![c] = "delWaiting"]
                    /\ UNCHANGED delQueries
               ELSE IF MembersOf(cacheScope) # {}
               THEN /\ cachePc' = [cachePc EXCEPT ![c] = "delRead"]
                    /\ delQueries' = [delQueries EXCEPT ![c] = MembersOf(cacheScope)]
               ELSE /\ cachePc' = [cachePc EXCEPT ![c] = "delDone"]
                    /\ UNCHANGED delQueries
    /\ UNCHANGED <<cacheClient, cacheTtl, cacheScope, cacheEntries, cacheSets,
                   cacheReady, lastWrite, scans>>

\* delQuery(key): the pipeline of DEL for every member read, and for the set
DelQueryExec(c) ==
    /\ cachePc[c] = "delRead"
    /\ cacheEntries' =
           [k \in DOMAIN cacheEntries \ {queryKey(cacheScope, q) : q \in delQueries[c]} |->
               cacheEntries[k]]
    /\ cacheSets' = [k \in DOMAIN cacheSets \ {cacheScope} |-> cacheSets[k]]
    /\ cachePc' = [cachePc EXCEPT ![c] = "delDone"]
    /\ delQueries' = [delQueries EXCEPT ![c] = {}]
    /\ commandsIssued' = commandsIssued + Cardinality(delQueries[c]) + 1
    /\ UNCHANGED <<cacheClient, cacheTtl, cacheScope, cacheReady, lastWrite, scans>>

\* delQuery(key) when the backend fails the smembers: the await throws
DelQueryRejects(c) ==
    /\ NextCacheCall(c)
    /\ BackendUp
    /\ cachePc' = [cachePc EXCEPT ![c] = "delRejected"]
    /\ commandsIssued' = commandsIssued + 1
    /\ UNCHANGED <<cacheClient, cacheTtl, cacheScope, cacheEntries, cacheSets,
                   delQueries, cacheReady, lastWrite, scans>>

\* get(key): this.client?.get(key)
Get(c, key) ==
    /\ NextCacheCall(c)
    /\ cachePc' = [cachePc EXCEPT ![c] =
                      IF ~cacheClient \/ cacheReady THEN "getDone" ELSE "getWaiting"]
    /\ commandsIssued' = IF cacheClient THEN commandsIssued + 1 ELSE commandsIssued
    /\ UNCHANGED <<cacheClient, cacheTtl, cacheScope, cacheEntries, cacheSets,
                   delQueries, cacheReady, lastWrite, scans>>

\* the store without the given keys
WithoutKeys(store, keys) == [k \in DOMAIN store \ keys |-> store[k]]

\* del(key): this.client?.del([key])
Del(c, key) ==
    /\ NextCacheCall(c)
    /\ cachePc' = [cachePc EXCEPT ![c] =
                      IF ~cacheClient \/ cacheReady THEN "delDone" ELSE "delWaiting"]
    /\ commandsIssued' = IF cacheClient THEN commandsIssued + 1 ELSE commandsIssued
    /\ IF BackendUp
       THEN /\ cacheEntries' = WithoutKeys(cacheEntries, {key})
            /\ cacheSets' = WithoutKeys(cacheSets, {key})
       ELSE UNCHANGED <<cacheEntries, cacheSets>>
    /\ UNCHANGED <<cacheClient, cacheTtl, cacheScope, delQueries, cacheReady,
                   lastWrite, scans>>

\* del(key) when the backend fails the command: the returned promise rejects
DelRejects(c, key) ==
    /\ NextCacheCall(c)
    /\ BackendUp
    /\ cachePc' = [cachePc EXCEPT ![c] = "delRejected"]
    /\ commandsIssued' = commandsIssued + 1
    /\ UNCHANGED <<cacheClient, cacheTtl, cacheScope, cacheEntries, cacheSets,
                   delQueries, cacheReady, lastWrite, scans>>

\* the keys of the store that a scan for pattern + '*' reports
Matches(pattern, key) ==
    Len(key) >= Len(pattern) /\ SubSeq(key, 1, Len(pattern)) = pattern

MatchingKeys(pattern) ==
    {k \in DOMAIN cacheEntries \cup DOMAIN cacheSets : Matches(pattern, k)}

\* resolve and reject settle the promise once; later calls have no effect
settle(promise, outcome) == IF promise = "pending" THEN outcome ELSE promise

\* where the caller of delByPattern stands, given the promise
patternPc(promise) ==
    CASE promise = "pending" -> "patScanning"
      [] promise = "resolved" -> "patDone"
      [] promise = "rejected" -> "patRejected"

\* delByPattern(pattern): without a client it returns undefined; with one it
\* opens the scan stream, registers the three listeners and returns the promise
DelByPattern(c, pattern) ==
    /\ NextCacheCall(c)
    /\ IF cacheClient
       THEN /\ cachePc' = [cachePc EXCEPT ![c] = "patScanning"]
            /\ scans' = [scans EXCEPT ![c] =
                            [stream |-> "open",
                             left |-> IF cacheReady THEN MatchingKeys(pattern) ELSE {},
                             pending |-> {},
                             promise |-> "pending"]]
            /\ commandsIssued' = commandsIssued + 1
       ELSE /\ cachePc' = [cachePc EXCEPT ![c] = "patDone"]
            /\ UNCHANGED <<scans, commandsIssued>>
    /\ UNCHANGED <<cacheClient, cacheTtl, cacheScope, cacheEntries, cacheSets,
                   delQueries, cacheReady, lastWrite>>

\* stream.on('data'): a page of keys arrives; a page with keys gets a pipeline of
\* DEL commands, whose exec() is started and not awaited
ScanData(c, page) ==
    /\ scans[c].stream = "open"
    /\ cacheReady
    /\ page \subseteq scans[c].left
    /\ scans' = [scans EXCEPT ![c].left = @ \ page,
                              ![c].pending = IF page # {} THEN @ \cup {page} ELSE @]
    /\ commandsIssued' = commandsIssued + Cardinality(page)
    /\ UNCHANGED <<cacheClient, cacheTtl, cacheScope, cacheEntries, cacheSets, cachePc,
                   delQueries, cacheReady, lastWrite>>

\* the pipeline of one page is executed: pipeline.exec().then(resolve)
PipelineExecutes(c, page) ==
    /\ page \in scans[c].pending
    /\ cacheEntries' = WithoutKeys(cacheEntries, page)
    /\ cacheSets' = WithoutKeys(cacheSets, page)
    /\ scans' = [scans EXCEPT ![c].pending = @ \ {page},
                              ![c].promise = settle(@, "resolved")]
    /\ cachePc' = [cachePc EXCEPT ![c] = patternPc(scans'[c].promise)]
    /\ UNCHANGED <<cacheClient, cacheTtl, cacheScope, delQueries, cacheReady,
                   commandsIssued, lastWrite>>

\* the pipeline of one page fails: pipeline.exec().catch(reject)
PipelineRejects(c, page) ==
    /\ page \in scans[c].pending
    /\ scans' = [scans EXCEPT ![c].pending = @ \ {page},
                              ![c].promise = settle(@, "rejected")]
    /\ cachePc' = [cachePc EXCEPT ![c] = patternPc(scans'[c].promise)]
    /\ UNCHANGED <<cacheClient, cacheTtl, cacheScope, cacheEntries, cacheSets,
                   delQueries, cacheReady, commandsIssued, lastWrite>>

\* stream.on('end'): every page has been reported; resolve(undefined)
ScanEnd(c) ==
    /\ scans[c].stream = "open"
    /\ cacheReady
    /\ scans[c].left = {}
    /\ scans' = [scans EXCEPT ![c].stream = "ended",
                              ![c].promise = settle(@, "resolved")]
    /\ cachePc' = [cachePc EXCEPT ![c] = patternPc(scans'[c].promise)]
    /\ UNCHANGED <<cacheClient, cacheTtl, cacheScope, cacheEntries, cacheSets,
                   delQueries, cacheReady, commandsIssued, lastWrite>>

\* stream.on('error'): the scan fails; reject(err)
ScanError(c) ==
    /\ scans[c].stream = "open"
    /\ cacheReady
    /\ scans' = [scans EXCEPT ![c].stream = "errored",
                              ![c].left = {},
                              ![c].promise = settle(@, "rejected")]
    /\ cachePc' = [cachePc EXCEPT ![c] = patternPc(scans'[c].promise)]
    /\ UNCHANGED <<cacheClient, cacheTtl, cacheScope, cacheEntries, cacheSets,
                   delQueries, cacheReady, commandsIssued, lastWrite>>

\* (variant: the catch lets the rejection through)
catchAndLog_Rethrows(pc) ==
    CASE pc \in {"delDone", "patDone"} -> "returned"
      [] pc \in {"delRejected", "patRejected"} -> "threw"
      [] OTHER -> "pending"

\* InvalidateCacheService: `try { await ... } catch (err) { log }` around the
\* cache call, given where the cache call stands
catchAndLog(pc) ==
    CASE pc \in {"delDone", "patDone"} -> "returned"
      [] pc \in {"delRejected", "patRejected"} -> "returned"
      [] OTHER -> "pending"

\* the wrapper returns before it calls the cache
WrapperReturnsEarly(c) ==
    /\ NextCacheCall(c)
    /\ cachePc' = [cachePc EXCEPT ![c] = "skipped"]
    /\ invResult' = [invResult EXCEPT ![c] = "returned"]
    /\ UNCHANGED <<cacheClient, cacheTtl, cacheScope, cacheEntries, cacheSets,
                   delQueries, cacheReady, commandsIssued, lastWrite, scans>>

\* invalidateByKey({key}): returns when cacheEnabled() is false, else awaits
\* del(key) inside the try
InvalidateByKey(c, key) ==
    IF ~cacheReady
    THEN WrapperReturnsEarly(c)
    ELSE /\ Del(c, key) \/ DelRejects(c, key)
         /\ invResult' = [invResult EXCEPT ![c] = catchAndLog(cachePc'[c])]

\* invalidateQuery({key}): returns when cacheEnabled() is false, else awaits
\* delQuery(key) inside the try
InvalidateQuery(c) ==
    IF ~cacheReady
    THEN WrapperReturnsEarly(c)
    ELSE /\ DelQueryRead(c) \/ DelQueryRejects(c)
         /\ invResult' = [invResult EXCEPT ![c] = catchAndLog(cachePc'[c])]

\* invalidateQuery continues with delQuery after the smembers
InvalidateQueryResumes(c) ==
    /\ invResult[c] = "pending"
    /\ DelQueryExec(c)
    /\ invResult' = [invResult EXCEPT ![c] = catchAndLog(cachePc'[c])]

\* clearByPattern(prefix, credentials): returns when buildKey gives no key, else
\* awaits delByPattern(cacheKey) inside the try; cacheEnabled() is not asked
ClearByPattern(c, hasKey) ==
    IF ~hasKey
    THEN WrapperReturnsEarly(c)
    ELSE /\ DelByPattern(c, cacheScope)
         /\ invResult' = [invResult EXCEPT ![c] = catchAndLog(cachePc'[c])]

\* clearByPattern continues once the promise of delByPattern has settled
ClearByPatternResumes(c) ==
    /\ invResult[c] = "pending"
    /\ cachePc[c] \in {"patDone", "patRejected"}
    /\ invResult' = [invResult EXCEPT ![c] = catchAndLog(cachePc[c])]
    /\ UNCHANGED cacheVars

\* filterActiveSteps: steps.filter((step) => step.active === true)
filterActiveSteps(steps) == SelectSeq(steps, LAMBDA step : step.active)

\* steps.find((step) => step.template?.type === StepTypeEnum.DIGEST): the place of
\* the first such step, 0 when there is none
findDigestStep(steps) ==
    IF \E i \in DOMAIN steps : steps[i].template = "digest"
    THEN CHOOSE i \in DOMAIN steps :
            /\ steps[i].template = "digest"
            /\ \A k \in DOMAIN steps : steps[k].template = "digest" => i <= k
    ELSE 0

\* `digestStep && digestStep.metadata?.type`: the digest filter is called
filterInvoked(steps) ==
    findDigestStep(steps) # 0 /\ steps[findDigestStep(steps)].digestType

\* (variant: the steps before the digest step are kept in front of the filter's)
filterDigestSteps_KeepsOthers(command, steps) ==
    IF filterInvoked(steps)
    THEN SelectSeq(steps, LAMBDA step : step.template # "digest") \o command.filtered
    ELSE steps

\* filterDigestSteps: the output of the digest filter, or the steps as they are
filterDigestSteps(command, steps) ==
    IF filterInvoked(steps) THEN command.filtered ELSE steps

\* (variant: inactive steps are kept)
createSteps_KeepsInactive(command) ==
    filterDigestSteps(command, command.steps)

\* createSteps
createSteps(command) ==
    filterDigestSteps(command, filterActiveSteps(command.steps))

\* the job pushed for one step
jobOf(command, step) ==
    [step |-> step.name,
     type |-> step.template,
     status |-> "PENDING",
     transactionId |-> command.transactionId,
     notificationId |-> command.notification]

ApiException(filterCalled) ==
    [kind |-> "ApiException", jobs |-> <<>>, filterInvoked |-> filterCalled]

\* (variant: steps without a template are skipped)
jobsFor_SkipsTemplateless(command, steps, filterCalled) ==
    [kind |-> "jobs",
     jobs |-> [i \in DOMAIN SelectSeq(steps, LAMBDA step : step.template # "none") |->
                  jobOf(command, SelectSeq(steps, LAMBDA step : step.template # "none")[i])],
     filterInvoked |-> filterCalled]

\* the loop over the steps: it throws at the first step without a template,
\* else every step gets its job
jobsFor(command, steps, filterCalled) ==
    IF \E i \in DOMAIN steps : steps[i].template = "none"
    THEN ApiException(filterCalled)
    ELSE [kind |-> "jobs",
          jobs |-> [i \in DOMAIN steps |-> jobOf(command, steps[i])],
          filterInvoked |-> filterCalled]

\* (variant: a missing notification is not checked)
execute_NoNotificationCheck(command) ==
    jobsFor(command, createSteps(command),
            filterInvoked(filterActiveSteps(command.steps)))

\* CreateNotificationJobs.execute(command)
execute(command) ==
    IF command.notification = "null"
    THEN ApiException(FALSE)
    ELSE jobsFor(command, createSteps(command),
                 filterInvoked(filterActiveSteps(command.steps)))

\* one call of CreateNotificationJobs.execute
CreateNotificationJobs ==
    /\ jobsResult = NotExecuted
    /\ jobsResult' = execute(jobsCommand)
    /\ UNCHANGED jobsCommand

\* use case calls are made one after the other
NextUseCase(u) ==
    /\ ucPc[u] = "idle"
    /\ \A v \in UseCaseCalls : v < u => ucPc[v] \in {"done", "written"}

\* `await this.invalidateCache.invalidateQuery({key})` inside a use case: the call
InvalidatesQuery(u) ==
    \E c \in CacheCalls :
        /\ InvalidateQuery(c)
        /\ ucSlot' = [ucSlot EXCEPT ![u] = c]

\* the awaited invalidation has returned to the use case
InvalidationReturned(u) == invResult[ucSlot[u]] = "returned"

\* execute() ends: with a value ("returned") or with the exception thrown
Ends(u, result) ==
    /\ ucPc' = [ucPc EXCEPT ![u] = "done"]
    /\ ucResult' = [ucResult EXCEPT ![u] = result]

\* `catch (e) { if (e instanceof DalException) throw new ApiException(e.message);
\* throw e }`
translate(exception) == IF exception = "DalException" THEN "ApiException" ELSE exception

RepositoryOutcomes == {"ok", "DalException"}

\* RemoveIntegration.execute up to the await of invalidateQuery
RemoveIntegrationStart(u) ==
    /\ NextUseCase(u)
    /\ InvalidatesQuery(u)
    /\ ucKind' = [ucKind EXCEPT ![u] = "RemoveIntegration"]
    /\ ucPc' = [ucPc EXCEPT ![u] = "invalidate"]
    /\ UNCHANGED <<ucResult, repoWrites>>

\* RemoveIntegration.execute: integrationRepository.delete, inside the try
RemoveIntegrationDelete(u, outcome) ==
    /\ ucKind[u] = "RemoveIntegration" /\ ucPc[u] = "invalidate"
    /\ InvalidationReturned(u)
    /\ IF outcome = "ok"
       THEN /\ repoWrites' = [repoWrites EXCEPT ![u] = @ + 1]
            /\ ucPc' = [ucPc EXCEPT ![u] = "find"]
            /\ UNCHANGED ucResult
       ELSE /\ Ends(u, translate(outcome))
            /\ UNCHANGED repoWrites
    /\ UNCHANGED <<cacheVars, invResult, ucKind, ucSlot>>

\* RemoveIntegration.execute: `return await this.integrationRepository.find(..)`,
\* after the try
RemoveIntegrationFind(u, outcome) ==
    /\ ucKind[u] = "RemoveIntegration" /\ ucPc[u] = "find"
    /\ Ends(u, IF outcome = "ok" THEN "returned" ELSE outcome)
    /\ UNCHANGED <<cacheVars, invResult, ucKind, ucSlot, repoWrites>>

\* RemoveMessage.execute up to the await of the first invalidateQuery
RemoveMessageStart(u) ==
    /\ NextUseCase(u)
    /\ InvalidatesQuery(u)
    /\ ucKind' = [ucKind EXCEPT ![u] = "RemoveMessage"]
    /\ ucPc' = [ucPc EXCEPT ![u] = "invalidateFeed"]
    /\ UNCHANGED <<ucResult, repoWrites>>

\* RemoveMessage.execute and SendMessageInApp.execute: the second invalidateQuery,
\* of the message count key
InvalidateMessageCount(u) ==
    /\ ucKind[u] \in {"RemoveMessage", "SendMessageInApp"}
    /\ ucPc[u] = "invalidateFeed"
    /\ InvalidationReturned(u)
    /\ InvalidatesQuery(u)
    /\ ucPc' = [ucPc EXCEPT ![u] = "invalidate"]
    /\ UNCHANGED <<ucKind, ucResult, repoWrites>>

\* RemoveMessage.execute: subscriberRepository.findBySubscriberId, before the try
RemoveMessageFindSubscriber(u, outcome) ==
    /\ ucKind[u] = "RemoveMessage" /\ ucPc[u] = "invalidate"
    /\ InvalidationReturned(u)
    /\ CASE outcome = "ok" ->
              /\ ucPc' = [ucPc EXCEPT ![u] = "delete"]
              /\ UNCHANGED ucResult
         [] outcome = "null" -> Ends(u, "NotFoundException")
         [] OTHER -> Ends(u, outcome)
    /\ UNCHANGED <<cacheVars, invResult, ucKind, ucSlot, repoWrites>>

\* RemoveMessage.execute: messageRepository.delete, inside the try
RemoveMessageDelete(u, outcome) ==
    /\ ucKind[u] = "RemoveMessage" /\ ucPc[u] = "delete"
    /\ IF outcome = "ok"
       THEN /\ repoWrites' = [repoWrites EXCEPT ![u] = @ + 1]
            /\ ucPc' = [ucPc EXCEPT ![u] = "findDeleted"]
            /\ UNCHANGED ucResult
       ELSE /\ Ends(u, translate(outcome))
            /\ UNCHANGED repoWrites
    /\ UNCHANGED <<cacheVars, invResult, ucKind, ucSlot>>

\* RemoveMessage.execute: messageRepository.findDeleted, inside the try; item[0]
\* of an empty result is undefined and reading .read of it throws a TypeError;
\* a message that is read and seen needs no updateServices
RemoveMessageFindDeleted(u, outcome, marked) ==
    /\ ucKind[u] = "RemoveMessage" /\ ucPc[u] = "findDeleted"
    /\ CASE outcome = "ok" /\ marked -> Ends(u, "returned")
         [] outcome = "ok" /\ ~marked ->
              /\ ucPc' = [ucPc EXCEPT ![u] = "updateServices"]
              /\ UNCHANGED ucResult
         [] outcome = "empty" -> Ends(u, translate("TypeError"))
         [] OTHER -> Ends(u, translate(outcome))
    /\ UNCHANGED <<cacheVars, invResult, ucKind, ucSlot, repoWrites>>

\* RemoveMessage.execute: the repository reads of updateServices, inside the try
RemoveMessageUpdateServices(u, outcome) ==
    /\ ucKind[u] = "RemoveMessage" /\ ucPc[u] = "updateServices"
    /\ Ends(u, IF outcome = "ok" THEN "returned" ELSE translate(outcome))
    /\ UNCHANGED <<cacheVars, invResult, ucKind, ucSlot, repoWrites>>

\* SendMessageInApp.execute up to the await of the first invalidateQuery; the
\* lookups and the template compilation before it either all succeed or end the
\* call
SendMessageInAppStart(u, prepared) ==
    /\ NextUseCase(u)
    /\ ucKind' = [ucKind EXCEPT ![u] = "SendMessageInApp"]
    /\ IF prepared
       THEN /\ InvalidatesQuery(u)
            /\ ucPc' = [ucPc EXCEPT ![u] = "invalidateFeed"]
            /\ UNCHANGED <<ucResult, repoWrites>>
       ELSE /\ Ends(u, "ApiException")
            /\ UNCHANGED <<cacheVars, invResult, ucSlot, repoWrites>>

\* SendMessageInApp.execute: messageRepository.create, or update of the old
\* message
SendMessageInAppWrite(u, outcome) ==
    /\ ucKind[u] = "SendMessageInApp" /\ ucPc[u] = "invalidate"
    /\ InvalidationReturned(u)
    /\ IF outcome = "ok"
       THEN /\ repoWrites' = [repoWrites EXCEPT ![u] = @ + 1]
            /\ ucPc' = [ucPc EXCEPT ![u] = "written"]
            /\ UNCHANGED ucResult
       ELSE /\ Ends(u, outcome)
            /\ UNCHANGED repoWrites
    /\ UNCHANGED <<cacheVars, invResult, ucKind, ucSlot>>

\* buildUserKey({_id}): the key of one entity, without the query delimiter
UserKey == <<Plain, Plain>>

\* the key of the one query of the scope that gets cached
QueryEntryKey == queryKey(cacheScope, PlainScope)

\* `await this.invalidateCache.invalidateByKey({key: buildUserKey(..)})` inside a
\* use case: the call
InvalidatesKey(u) ==
    \E c \in CacheCalls :
        /\ InvalidateByKey(c, UserKey)
        /\ ucSlot' = [ucSlot EXCEPT ![u] = c]

\* PasswordReset.execute up to the await of invalidateByKey: findUserByToken, the
\* two token checks and bcrypt.hash touch neither the cache nor the user record
PasswordResetStart(u, outcome) ==
    /\ NextUseCase(u)
    /\ ucKind' = [ucKind EXCEPT ![u] = "PasswordReset"]
    /\ IF outcome = "ok"
       THEN /\ InvalidatesKey(u)
            /\ ucPc' = [ucPc EXCEPT ![u] = "invalidate"]
            /\ UNCHANGED ucResult
       ELSE /\ Ends(u, IF outcome \in {"null", "expired"} THEN "ApiException" ELSE outcome)
            /\ UNCHANGED <<cacheVars, invResult, ucSlot>>
    /\ UNCHANGED repoWrites

\* PasswordReset.execute: userRepository.update, then the token is generated and
\* returned; there is no try around it
PasswordResetUpdate(u, outcome) ==
    /\ ucKind[u] = "PasswordReset" /\ ucPc[u] = "invalidate"
    /\ InvalidationReturned(u)
    /\ IF outcome = "ok"
       THEN /\ repoWrites' = [repoWrites EXCEPT ![u] = @ + 1]
            /\ Ends(u, "returned")
       ELSE /\ Ends(u, outcome)
            /\ UNCHANGED repoWrites
    /\ UNCHANGED <<cacheVars, invResult, ucKind, ucSlot>>

\* UpdateProfileEmail.execute up to the await of userRepository.update
UpdateProfileEmailStart(u, outcome) ==
    /\ NextUseCase(u)
    /\ ucKind' = [ucKind EXCEPT ![u] = "UpdateProfileEmail"]
    /\ CASE outcome = "null" ->
              /\ ucPc' = [ucPc EXCEPT ![u] = "update"]
              /\ UNCHANGED ucResult
         [] outcome = "ok" -> Ends(u, "BadRequestException")
         [] OTHER -> Ends(u, outcome)
    /\ UNCHANGED <<cacheVars, invResult, ucSlot, repoWrites>>

\* UpdateProfileEmail.execute: userRepository.update settles; on success
\* execute goes on to the await of invalidateByKey
UpdateProfileEmailUpdate(u, outcome) ==
    /\ ucKind[u] = "UpdateProfileEmail" /\ ucPc[u] = "update"
    /\ IF outcome = "ok"
       THEN /\ repoWrites' = [repoWrites EXCEPT ![u] = @ + 1]
            /\ InvalidatesKey(u)
            /\ ucPc' = [ucPc EXCEPT ![u] = "invalidate"]
            /\ UNCHANGED ucResult
       ELSE /\ Ends(u, outcome)
            /\ UNCHANGED <<cacheVars, invResult, ucSlot, repoWrites>>
    /\ UNCHANGED ucKind

\* UpdateProfileEmail.execute: userRepository.findById after the invalidation
UpdateProfileEmailFind(u, outcome) ==
    /\ ucKind[u] = "UpdateProfileEmail" /\ ucPc[u] = "invalidate"
    /\ InvalidationReturned(u)
    /\ Ends(u, CASE outcome = "ok" -> "returned"
                 [] outcome = "null" -> "NotFoundException"
                 [] OTHER -> outcome)
    /\ UNCHANGED <<cacheVars, invResult, ucKind, ucSlot, repoWrites>>

\* what a use case invalidates: the key of an entity, or the queries of a scope
CachedAs(kind) ==
    IF kind \in {"PasswordReset", "UpdateProfileEmail"} THEN "entity" ELSE "query"

ReaderKey(kind) == IF kind = "entity" THEN UserKey ELSE QueryEntryKey

\* the reader asks the cache: get(key).  It reads what the use case of the run
\* invalidates.
ReaderLooksUp(kind) ==
    /\ readerPc = "idle"
    /\ \A u \in UseCaseCalls : ucKind[u] # "none" => CachedAs(ucKind[u]) = kind
    /\ readerKind' = kind
    /\ commandsIssued' = IF cacheClient THEN commandsIssued + 1 ELSE commandsIssued
    /\ IF BackendUp /\ ReaderKey(kind) \in DOMAIN cacheEntries
       THEN /\ readerPc' = "done"
            /\ readerValue' = cachedValue
       ELSE /\ readerPc' = "miss"
            /\ UNCHANGED readerValue
    /\ UNCHANGED <<cacheClient, cacheTtl, cacheScope, cacheEntries, cacheSets, cachePc,
                   delQueries, cacheReady, lastWrite, scans, cachedValue>>

\* on a miss the reader reads the repository
ReaderReads ==
    /\ readerPc = "miss"
    /\ readerValue' = repoWrites
    /\ readerPc' = "read"
    /\ UNCHANGED <<cacheVars, readerKind, cachedValue>>

\* and stores what it read: set(key, value) for an entity, setQuery(key, value)
\* for a query
ReaderFills(c) ==
    /\ readerPc = "read"
    /\ IF readerKind = "entity"
       THEN Set(c, UserKey, 0, 0)
       ELSE SetQuery(c, QueryEntryKey, 0, 0, 0)
    /\ cachedValue' = IF ReaderKey(readerKind) \in DOMAIN cacheEntries'
                      THEN readerValue ELSE cachedValue
    /\ readerPc' = "done"
    /\ UNCHANGED <<readerKind, readerValue>>

\* a use case starts on what the reader reads
ReaderAgrees(kind) == readerKind \in {"none", kind}

\* a second passes in the backend: keys at the end of their time to live go
TimePasses ==
    /\ DOMAIN cacheEntries \cup DOMAIN cacheSets # {}
    /\ cacheEntries' = [k \in {e \in DOMAIN cacheEntries : cacheEntries[e] > 1} |->
                           cacheEntries[k] - 1]
    /\ cacheSets' = [k \in {e \in DOMAIN cacheSets : cacheSets[e].ttl > 1} |->
                        [cacheSets[k] EXCEPT !.ttl = @ - 1]]
    /\ UNCHANGED <<cacheClient, cacheTtl, cacheScope, cachePc, delQueries, cacheReady,
                   commandsIssued, lastWrite, scans>>

\* ------------------------------------------------------- specifications
nonCacheVars == <<vars, queueVars, appVars>>

\* concurrent setQuery (without options) and delQuery calls on one scope, keys
\* well formed, no expiry
CacheInit == LockIdle /\ QueueIdle /\ AppIdle /\ CacheStart(PlainScope)

CacheNext ==
    \/ \E c \in CacheCalls, q \in PlainQueries, d1 \in RandomDraws, d2 \in RandomDraws :
          SetQuery(c, queryKey(cacheScope, q), 0, d1, d2) /\ UNCHANGED nonCacheVars
    \/ \E c \in CacheCalls : DelQueryRead(c) /\ UNCHANGED nonCacheVars
    \/ \E c \in CacheCalls : DelQueryExec(c) /\ UNCHANGED nonCacheVars

CacheSpec == CacheInit /\ [][CacheNext]_allVars

\* setQuery calls on one scope while time passes
SetQueryNext ==
    \/ \E c \in CacheCalls, q \in PlainQueries, o \in TtlOptions,
          d1 \in RandomDraws, d2 \in RandomDraws :
          SetQuery(c, queryKey(cacheScope, q), o, d1, d2) /\ UNCHANGED nonCacheVars
    \/ TimePasses /\ UNCHANGED nonCacheVars

SetQuerySpec == CacheInit /\ [][SetQueryNext]_allVars

\* set and setQuery calls with every ttl option and every random draw
TtlNext ==
    \/ \E c \in CacheCalls, q \in PlainQueries, o \in TtlOptions, d \in RandomDraws :
          Set(c, queryKey(cacheScope, q), o, d) /\ UNCHANGED nonCacheVars
    \/ \E c \in CacheCalls, q \in PlainQueries, o \in TtlOptions,
          d1 \in RandomDraws, d2 \in RandomDraws :
          SetQuery(c, queryKey(cacheScope, q), o, d1, d2) /\ UNCHANGED nonCacheVars

TtlSpec == CacheInit /\ [][TtlNext]_allVars

\* every operation of the cache service and of the invalidation service, called
\* while cacheEnabled() is false: there is no client, or one that is not ready
wrapperFrame == <<vars, queueVars, ucVars, builderVars, readerVars>>

DisabledInit ==
    /\ LockIdle /\ QueueIdle /\ AppIdle
    /\ cacheClient \in BOOLEAN
    /\ cacheReady = FALSE
    /\ cacheTtl \in 1..MaxCacheTtl
    /\ cacheScope = PlainScope
    /\ cacheEntries = EmptyEntries
    /\ cacheSets = EmptySets
    /\ cachePc = [c \in CacheCalls |-> "idle"]
    /\ delQueries = [c \in CacheCalls |-> {}]
    /\ commandsIssued = 0
    /\ lastWrite = NoWrite
    /\ scans = [c \in CacheCalls |-> NoScan]

DisabledNext ==
    \/ \E c \in CacheCalls, q \in PlainQueries, d \in RandomDraws :
          Set(c, queryKey(cacheScope, q), 0, d) /\ UNCHANGED nonCacheVars
    \/ \E c \in CacheCalls, q \in PlainQueries, d1 \in RandomDraws, d2 \in RandomDraws :
          SetQuery(c, queryKey(cacheScope, q), 0, d1, d2) /\ UNCHANGED nonCacheVars
    \/ \E c \in CacheCalls, q \in PlainQueries :
          Get(c, queryKey(cacheScope, q)) /\ UNCHANGED nonCacheVars
    \/ \E c \in CacheCalls, q \in PlainQueries :
          Del(c, queryKey(cacheScope, q)) /\ UNCHANGED nonCacheVars
    \/ \E c \in CacheCalls : DelQueryRead(c) /\ UNCHANGED nonCacheVars
    \/ \E c \in CacheCalls : DelByPattern(c, cacheScope) /\ UNCHANGED nonCacheVars
    \/ \E c \in CacheCalls, q \in PlainQueries :
          InvalidateByKey(c, queryKey(cacheScope, q)) /\ UNCHANGED wrapperFrame
    \/ \E c \in CacheCalls : InvalidateQuery(c) /\ UNCHANGED wrapperFrame
    \/ \E c \in CacheCalls, hasKey \in BOOLEAN :
          ClearByPattern(c, hasKey) /\ UNCHANGED wrapperFrame

DisabledSpec == DisabledInit /\ [][DisabledNext]_allVars

\* one scope and one value of the configured ttl: no time passes in the
\* specifications below
ScopeInit == CacheInit /\ cacheTtl = MaxCacheTtl

\* setQuery calls fill one scope; delByPattern calls scan it and delete the pages
PatternNext ==
    \/ \E c \in CacheCalls, q \in PlainQueries :
          SetQuery(c, queryKey(cacheScope, q), 0, 0, 0) /\ UNCHANGED nonCacheVars
    \/ \E c \in CacheCalls : DelByPattern(c, cacheScope) /\ UNCHANGED nonCacheVars
    \/ \E c \in CacheCalls : \E page \in SUBSET scans[c].left :
          ScanData(c, page) /\ UNCHANGED nonCacheVars
    \/ \E c \in CacheCalls : \E page \in scans[c].pending :
          PipelineExecutes(c, page) /\ UNCHANGED nonCacheVars
    \/ \E c \in CacheCalls : \E page \in scans[c].pending :
          PipelineRejects(c, page) /\ UNCHANGED nonCacheVars
    \/ \E c \in CacheCalls : ScanEnd(c) /\ UNCHANGED nonCacheVars
    \/ \E c \in CacheCalls : ScanError(c) /\ UNCHANGED nonCacheVars

PatternSpec == ScopeInit /\ [][PatternNext]_allVars

\* use cases that invalidate a scope before they write to the repository, and
\* single invalidateByKey and clearByPattern calls, next to one setQuery that
\* fills the scope; the backend may fail any del, smembers, pipeline or scan
useCaseFrame == <<vars, queueVars, builderVars, readerVars>>

\* the single invalidateByKey and clearByPattern calls are made one after the other
NoScanRunning ==
    \A c \in CacheCalls :
        /\ scans[c].stream # "open" /\ scans[c].pending = {}
        /\ invResult[c] # "pending"

UseCaseNext ==
    \/ /\ cachePc[1] = "idle"
       /\ SetQuery(1, queryKey(cacheScope, PlainScope), 0, 0, 0)
       /\ UNCHANGED nonCacheVars
    \/ \E c \in CacheCalls :
          InvalidateQueryResumes(c) /\ UNCHANGED <<useCaseFrame, ucVars>>
    \/ \E c \in CacheCalls :
          /\ NoScanRunning
          /\ InvalidateByKey(c, queryKey(cacheScope, PlainScope))
          /\ UNCHANGED <<useCaseFrame, ucVars>>
    \/ \E c \in CacheCalls, hasKey \in BOOLEAN :
          /\ NoScanRunning
          /\ ClearByPattern(c, hasKey)
          /\ UNCHANGED <<useCaseFrame, ucVars>>
    \/ \E c \in CacheCalls :
          ClearByPatternResumes(c) /\ UNCHANGED <<useCaseFrame, ucVars>>
    \/ \E c \in CacheCalls : \E page \in SUBSET scans[c].left :
          ScanData(c, page) /\ UNCHANGED nonCacheVars
    \/ \E c \in CacheCalls : \E page \in scans[c].pending :
          PipelineExecutes(c, page) /\ UNCHANGED nonCacheVars
    \/ \E c \in CacheCalls : \E page \in scans[c].pending :
          PipelineRejects(c, page) /\ UNCHANGED nonCacheVars
    \/ \E c \in CacheCalls : ScanEnd(c) /\ UNCHANGED nonCacheVars
    \/ \E c \in CacheCalls : ScanError(c) /\ UNCHANGED nonCacheVars
    \/ \E u \in UseCaseCalls : RemoveIntegrationStart(u) /\ UNCHANGED useCaseFrame
    \/ \E u \in UseCaseCalls, o \in RepositoryOutcomes :
          RemoveIntegrationDelete(u, o) /\ UNCHANGED useCaseFrame
    \/ \E u \in UseCaseCalls, o \in RepositoryOutcomes :
          RemoveIntegrationFind(u, o) /\ UNCHANGED useCaseFrame
    \/ \E u \in UseCaseCalls : RemoveMessageStart(u) /\ UNCHANGED useCaseFrame
    \/ \E u \in UseCaseCalls : InvalidateMessageCount(u) /\ UNCHANGED useCaseFrame
    \/ \E u \in UseCaseCalls, o \in RepositoryOutcomes \cup {"null"} :
          RemoveMessageFindSubscriber(u, o) /\ UNCHANGED useCaseFrame
    \/ \E u \in UseCaseCalls, o \in RepositoryOutcomes :
          RemoveMessageDelete(u, o) /\ UNCHANGED useCaseFrame
    \/ \E u \in UseCaseCalls, o \in RepositoryOutcomes \cup {"empty"}, marked \in BOOLEAN :
          RemoveMessageFindDeleted(u, o, marked) /\ UNCHANGED useCaseFrame
    \/ \E u \in UseCaseCalls, o \in RepositoryOutcomes :
          RemoveMessageUpdateServices(u, o) /\ UNCHANGED useCaseFrame
    \/ \E u \in UseCaseCalls, prepared \in BOOLEAN :
          SendMessageInAppStart(u, prepared) /\ UNCHANGED useCaseFrame
    \/ \E u \in UseCaseCalls, o \in RepositoryOutcomes :
          SendMessageInAppWrite(u, o) /\ UNCHANGED useCaseFrame

UseCaseSpec == ScopeInit /\ [][UseCaseNext]_allVars

\* one use case that pairs an invalidation with a repository write, next to one
\* reader that goes through the cache
readerFrame == <<vars, queueVars, builderVars, invResult, ucVars>>

ReadThroughNext ==
    \/ \E kind \in {"entity", "query"} : ReaderLooksUp(kind) /\ UNCHANGED readerFrame
    \/ ReaderReads /\ UNCHANGED readerFrame
    \/ \E c \in CacheCalls : ReaderFills(c) /\ UNCHANGED readerFrame
    \/ \E c \in CacheCalls :
          InvalidateQueryResumes(c) /\ UNCHANGED <<useCaseFrame, ucVars>>
    \/ \E u \in UseCaseCalls :
          ReaderAgrees("query") /\ RemoveIntegrationStart(u) /\ UNCHANGED useCaseFrame
    \/ \E u \in UseCaseCalls, o \in RepositoryOutcomes :
          RemoveIntegrationDelete(u, o) /\ UNCHANGED useCaseFrame
    \/ \E u \in UseCaseCalls, o \in RepositoryOutcomes :
          RemoveIntegrationFind(u, o) /\ UNCHANGED useCaseFrame
    \/ \E u \in UseCaseCalls :
          ReaderAgrees("query") /\ RemoveMessageStart(u) /\ UNCHANGED useCaseFrame
    \/ \E u \in UseCaseCalls : InvalidateMessageCount(u) /\ UNCHANGED useCaseFrame
    \/ \E u \in UseCaseCalls, o \in RepositoryOutcomes \cup {"null"} :
          RemoveMessageFindSubscriber(u, o) /\ UNCHANGED useCaseFrame
    \/ \E u \in UseCaseCalls, o \in RepositoryOutcomes :
          RemoveMessageDelete(u, o) /\ UNCHANGED useCaseFrame
    \/ \E u \in UseCaseCalls, o \in RepositoryOutcomes \cup {"empty"}, marked \in BOOLEAN :
          RemoveMessageFindDeleted(u, o, marked) /\ UNCHANGED useCaseFrame
    \/ \E u \in UseCaseCalls, o \in RepositoryOutcomes :
          RemoveMessageUpdateServices(u, o) /\ UNCHANGED useCaseFrame
    \/ \E u \in UseCaseCalls, o \in RepositoryOutcomes \cup {"null", "expired"} :
          ReaderAgrees("entity") /\ PasswordResetStart(u, o) /\ UNCHANGED useCaseFrame
    \/ \E u \in UseCaseCalls, o \in RepositoryOutcomes :
          PasswordResetUpdate(u, o) /\ UNCHANGED useCaseFrame
    \/ \E u \in UseCaseCalls, o \in RepositoryOutcomes \cup {"null"} :
          ReaderAgrees("entity") /\ UpdateProfileEmailStart(u, o) /\ UNCHANGED useCaseFrame
    \/ \E u \in UseCaseCalls, o \in RepositoryOutcomes :
          UpdateProfileEmailUpdate(u, o) /\ UNCHANGED useCaseFrame
    \/ \E u \in UseCaseCalls, o \in RepositoryOutcomes \cup {"null"} :
          UpdateProfileEmailFind(u, o) /\ UNCHANGED useCaseFrame

ReadThroughSpec == ScopeInit /\ [][ReadThroughNext]_allVars

\* CreateNotificationJobs.execute on every command
BuilderInit ==
    /\ LockIdle /\ QueueIdle /\ CacheIdle /\ CallersIdle
    /\ \E command \in Commands : BuilderStart(command)

BuilderNext ==
    CreateNotificationJobs
        /\ UNCHANGED <<vars, queueVars, cacheVars, invResult, ucVars, readerVars>>

BuilderSpec == BuilderInit /\ [][BuilderNext]_allVars

\* setQuery calls (without options) for any scope and any discriminators, then
\* one delQuery of the scope, one call after the other.  No time passes here, so
\* one value of the configured ttl and one random draw stand for all.
RoundTripInit ==
    /\ LockIdle /\ QueueIdle /\ AppIdle
    /\ \E scope \in KeyStrings : CacheStart(scope)
    /\ cacheTtl = MaxCacheTtl

NoDelQueryYet == \A c \in CacheCalls : cachePc[c] \in {"idle", "setDone"}

RoundTripNext ==
    \/ \E c \in CacheCalls, q \in KeyStrings :
          /\ NoDelQueryYet
          /\ SetQuery(c, queryKey(cacheScope, q), 0, 0, 0)
          /\ UNCHANGED nonCacheVars
    \/ \E c \in CacheCalls : NoDelQueryYet /\ DelQueryRead(c) /\ UNCHANGED nonCacheVars
    \/ \E c \in CacheCalls : DelQueryExec(c) /\ UNCHANGED nonCacheVars

RoundTripSpec == RoundTripInit /\ [][RoundTripNext]_allVars

\* ======================================================================
\* Part 3: CacheService (query-set pattern): properties
\* ======================================================================
NoCacheCallInFlight == \A c \in CacheCalls : cachePc[c] # "delRead"

\* the entry is one a delQuery of its scope reaches: its discriminator is a
\* member of its scope's set
Reachable(key) ==
    /\ splitKey(key).credentials \in DOMAIN cacheSets
    /\ splitKey(key).query \in cacheSets[splitKey(key).credentials].members

\* C18: whenever no setQuery or delQuery call on the scope is in flight, every
\* query entry in the backend is a member of its scope's query set.
C18_EntriesStayReachable ==
    NoCacheCallInFlight => \A key \in DOMAIN cacheEntries : Reachable(key)

SetTtlRemaining(key) == IF key \in DOMAIN cacheSets THEN cacheSets[key].ttl ELSE 0

\* C19: at every moment the remaining time to live of a scope's query set is at
\* least that of every query entry written under the scope.
C19_SetOutlivesEntries ==
    \A key \in DOMAIN cacheEntries :
        SetTtlRemaining(splitKey(key).credentials) >= cacheEntries[key]

\* C20: once setQuery calls for keys scope + delimiter + query have been followed
\* by delQuery(scope), neither an entry nor a set is left in the backend (a
\* delQuery that finds no member returns normally and changes nothing).
C20_RoundTripLeavesNothing ==
    (\E c \in CacheCalls : cachePc[c] = "delDone") =>
        (DOMAIN cacheEntries = {} /\ DOMAIN cacheSets = {})


\* C21: the ttl that set and setQuery store lies within five percent of the base
\* ttl T: 0.95 * T <= stored ttl <= 1.05 * T
C21_StoredTtlWithinFivePercent ==
    lastWrite.base > 0 =>
        /\ 95 * lastWrite.base <= 100 * lastWrite.ttl
        /\ 100 * lastWrite.ttl <= 105 * lastWrite.base

\* C22: while cacheEnabled() is false, every operation of the cache service and
\* of the invalidation service returns without issuing a command to the backend
C22_DisabledIssuesNothing ==
    ~cacheReady =>
        /\ commandsIssued = 0
        /\ \A c \in CacheCalls :
              /\ cachePc[c] \notin {"getWaiting", "delWaiting", "patScanning"}
              /\ invResult[c] # "pending"

\* C24: the promise of delByPattern is resolved only after the scan stream has
\* ended and the pipeline of every scanned page has been executed, and it is
\* rejected when the scan stream has reported an error
C24_ResolvesAfterScanAndDeletes ==
    \A c \in CacheCalls :
        /\ scans[c].promise = "resolved" =>
               (scans[c].stream = "ended" /\ scans[c].pending = {})
        /\ scans[c].stream = "errored" => scans[c].promise = "rejected"

\* the cache call behind an invalidation was rejected by the backend
Rejected(c) == cachePc[c] \in {"delRejected", "patRejected"}

\* C23: when the del, delQuery or delByPattern behind invalidateByKey,
\* invalidateQuery or clearByPattern rejects, the invalidation call returns
\* normally, so a use case waiting for it goes on to its repository write
C23_InvalidationNeverPropagates ==
    /\ \A c \in CacheCalls :
          (Rejected(c) /\ invResult[c] # "none") => invResult[c] \in {"pending", "returned"}
    /\ \A c \in CacheCalls : invResult[c] # "threw"
    /\ \A u \in UseCaseCalls :
          (ucPc[u] \in {"invalidate", "invalidateFeed"} /\ cachePc[ucSlot[u]] = "delRejected")
              => InvalidationReturned(u)

C23_Witness ==
    /\ \E u \in UseCaseCalls :
          /\ repoWrites[u] = 1
          /\ cachePc[ucSlot[u]] = "delRejected"
    /\ \E c \in CacheCalls : cachePc[c] = "patRejected" /\ invResult[c] = "returned"

\* C29: a DalException raised by a repository call inside RemoveIntegration.execute
\* or RemoveMessage.execute, the final find included, reaches the caller as an
\* ApiException and never as a DalException
C29_DalExceptionNeverReachesCaller ==
    \A u \in UseCaseCalls :
        ucKind[u] \in {"RemoveIntegration", "RemoveMessage"} => ucResult[u] # "DalException"

\* CreateNotificationJobs.execute has been called
Executed == jobsResult.kind # "none"

\* the template [A (active), B (inactive), C (active, digest)] with a digest filter
\* that returns [C'], and a notification record that was created
DigestExample ==
    /\ jobsCommand.steps =
          Named("template", <<[active |-> TRUE, template |-> "channel", digestType |-> FALSE],
                              [active |-> FALSE, template |-> "channel", digestType |-> FALSE],
                              [active |-> TRUE, template |-> "digest", digestType |-> TRUE]>>)
    /\ jobsCommand.filtered =
          Named("filtered", <<[active |-> TRUE, template |-> "channel", digestType |-> FALSE]>>)
    /\ jobsCommand.notification # "null"

\* the job expected for a step
ExpectedJob(step) ==
    [step |-> step.name,
     type |-> step.template,
     status |-> "PENDING",
     transactionId |-> jobsCommand.transactionId,
     notificationId |-> jobsCommand.notification]

\* C25 as stated: for steps [A (active), B (inactive), C (active, digest)] and a
\* digest filter that returns [C'], the job list is exactly [job for A, job for C']
C25_DigestExampleKeepsA ==
    (Executed /\ DigestExample) =>
        /\ jobsResult.kind = "jobs"
        /\ jobsResult.jobs = <<ExpectedJob(jobsCommand.steps[1]),
                               ExpectedJob(jobsCommand.filtered[1])>>

\* C25 amended: when the digest filter is called, the job list is exactly one job
\* per step the filter returned, in the filter's order; for the steps
\* [A (active), B (inactive), C (active, digest)] and a filter that returns [C']
\* it is exactly [job for C']
C25_DigestOutputReplacesSteps ==
    /\ (Executed /\ jobsResult.kind = "jobs" /\ jobsResult.filterInvoked) =>
           jobsResult.jobs =
               [i \in DOMAIN jobsCommand.filtered |-> ExpectedJob(jobsCommand.filtered[i])]
    /\ (Executed /\ DigestExample) =>
           /\ jobsResult.kind = "jobs"
           /\ jobsResult.filterInvoked
           /\ jobsResult.jobs = <<ExpectedJob(jobsCommand.filtered[1])>>

C25_Witness == Executed /\ DigestExample

\* no active step of the template is a digest step
NoActiveDigest ==
    \A i \in DOMAIN jobsCommand.steps :
        jobsCommand.steps[i].active => jobsCommand.steps[i].template # "digest"

ActiveSteps == SelectSeq(jobsCommand.steps, LAMBDA step : step.active)

ActiveStepsHaveTemplates ==
    \A i \in DOMAIN jobsCommand.steps :
        jobsCommand.steps[i].active => jobsCommand.steps[i].template # "none"

\* C26: for a template with no digest step among its active steps, the job list
\* returned has exactly one job per active step, in the template's order, none for
\* an inactive step, each PENDING with the trigger's transactionId and the id of
\* the notification created by this call; and it is returned whenever the
\* notification was created and every active step has a template
C26_OneJobPerActiveStep ==
    (Executed /\ NoActiveDigest) =>
        /\ ~jobsResult.filterInvoked
        /\ jobsResult.kind = "jobs" =>
               /\ jobsResult.jobs = [i \in DOMAIN ActiveSteps |-> ExpectedJob(ActiveSteps[i])]
               /\ \A i \in DOMAIN jobsResult.jobs :
                     /\ jobsResult.jobs[i].status = "PENDING"
                     /\ jobsResult.jobs[i].transactionId = jobsCommand.transactionId
                     /\ jobsResult.jobs[i].notificationId = jobsCommand.notification
        /\ (jobsCommand.notification # "null" /\ ActiveStepsHaveTemplates) =>
               jobsResult.kind = "jobs"

C26_Witness ==
    /\ Executed /\ NoActiveDigest
    /\ jobsResult.kind = "jobs"
    /\ Len(jobsResult.jobs) = 2
    /\ Len(jobsCommand.steps) = 3
    /\ ~jobsCommand.steps[2].active

\* C27: when creating the notification record yields no notification, execute
\* fails with an ApiException, the digest filter is not called and no job list
\* is returned
C27_NoNotificationNoJobs ==
    (Executed /\ jobsCommand.notification = "null") =>
        /\ jobsResult.kind = "ApiException"
        /\ ~jobsResult.filterInvoked
        /\ jobsResult.jobs = <<>>

C27_Witness ==
    /\ Executed /\ jobsCommand.notification = "null"
    /\ ~NoActiveDigest
    /\ \E i \in DOMAIN jobsCommand.steps :
          /\ jobsCommand.steps[i].active
          /\ jobsCommand.steps[i].template = "digest"
          /\ jobsCommand.steps[i].digestType

\* the step list the jobs are built from has a step without a template
TemplatelessStep ==
    \E i \in DOMAIN createSteps(jobsCommand) : createSteps(jobsCommand)[i].template = "none"

\* C28: when a step of the resulting step list has no template attached, execute
\* fails with an ApiException and returns no jobs at all, none for the steps
\* before that step either
C28_TemplatelessStepNoJobs ==
    (Executed /\ TemplatelessStep) =>
        /\ jobsResult.kind = "ApiException"
        /\ jobsResult.jobs = <<>>

C28_Witness ==
    /\ Executed /\ jobsCommand.notification # "null"
    /\ Len(createSteps(jobsCommand)) >= 2
    /\ createSteps(jobsCommand)[1].template # "none"
    /\ createSteps(jobsCommand)[2].template = "none"

\* a shutdown() call is between its entry and its return
Draining == \E s \in Shutdowns : shutdownPc[s] \in {"polling", "quitting"}

\* UNINITIALIZED, READY, DRAINING, STOPPED as 0, 1, 2, 3
LifecycleStage ==
    CASE redlockClient = "closed" -> 3
      [] redlockClient # "closed" /\ Draining -> 2
      [] redlockClient = "open" /\ ~Draining -> 1
      [] OTHER -> 0

\* C30: the lifecycle of the lock manager only moves forward along
\* UNINITIALIZED -> READY -> DRAINING -> STOPPED: shutdown() marks the manager as
\* shutting down before it polls the counters, no new lock is acquired once a
\* shutdown() has begun, and after shutdown() the manager is not READY again
C30_LifecycleOnlyForward ==
    [][/\ LifecycleStage' >= LifecycleStage
       /\ (\E s \in Shutdowns : shutdownPc'[s] = "polling") => shuttingDown'
       /\ Draining =>
              \A c \in Calls :
                  acquireOutcome'[c] = "granted" => acquireOutcome[c] = "granted"]_vars

\* ----------------------------------------------------------------------
\* the applyLock calls on r that went past acquisition and have not finished
\* their release
HoldersOf(r) == {c \in Calls : Holding(c) /\ callResource[c] = r}

CounterMatchesHolders ==
    \A r \in Resources :
        /\ CounterOf(lockCounter, r) >= 0
        /\ CounterOf(lockCounter, r) = Cardinality(HoldersOf(r))

\* a step that changes the counter of r is a step of an applyLock call on r
CounterChangedByOwnCall ==
    \A r \in Resources :
        CounterOf(lockCounter', r) # CounterOf(lockCounter, r)
            => \E c \in Calls : /\ callResource[c] = r
                                /\ callPc'[c] # callPc[c]
                                /\ \A d \in Calls \ {c} : callPc'[d] = callPc[d]

\* C32: for every resource r the counter of r is never negative and equals the
\* number of applyLock calls on r that completed acquisition and have not
\* finished their release; an applyLock on r leaves the counters of the other
\* resources alone.
C32_CounterCountsHolders ==
    [] CounterMatchesHolders /\ [][CounterChangedByOwnCall]_vars

\* two calls hold different resources, each counted once
C32_Witness ==
    \E c, d \in Calls :
        /\ Holding(c) /\ Holding(d)
        /\ callResource[c] # callResource[d]
        /\ lockCounter[callResource[c]] = 1
        /\ lockCounter[callResource[d]] = 1

\* ----------------------------------------------------------------------
\* the call's acquisition failed: nothing of the protected path has run
FailedCallDidNothing(c) ==
    /\ callPc[c] = "done"
    /\ bodyOutcome[c] = Pending
    /\ unlockCalls[c] = 0
    /\ unlockOutcome[c] = "none"
    /\ callResult[c].kind = "threw"
    /\ callResult[c].name # HandlerError.name

\* the steps of a call that is waiting for acquire or whose acquire rejects
StepOfUnacquiredCall(c) ==
    /\ callPc'[c] # callPc[c]
    /\ acquireOutcome'[c] \in {"pending", "failed"}

\* C33: when acquisition fails the handler body is never run, unlock is never
\* called, applyLock throws to its caller, and no step of the call, from its
\* entry to the rejection, changes lockCounter.
C33_FailedAcquireLeavesNoTrace ==
    /\ [] (\A c \in Calls : acquireOutcome[c] = "failed" => FailedCallDidNothing(c))
    /\ [][\A c \in Calls : StepOfUnacquiredCall(c) => lockCounter' = lockCounter]_vars

\* an acquisition failed while another call holds a lock, the counter at 1
C33_Witness ==
    \E c, d \in Calls :
        /\ acquireOutcome[c] = "failed"
        /\ callResult[c].kind = "threw"
        /\ Holding(d)
        /\ lockCounter[callResource[d]] = 1

\* ----------------------------------------------------------------------
\* C34: with handler bodies that terminate and unlock calls that return or
\* throw, every shutdown() call that was entered eventually returns, also when
\* applyLock keeps being invoked while shutdown() polls.
C34_ShutdownEventuallyReturns ==
    \A s \in Shutdowns : (shutdownPc[s] # "idle") ~> (shutdownPc[s] = "done")

\* ----------------------------------------------------------------------
\* the failure listener of some attempt wrote FAILED for an error that is not
\* backoff-eligible, and FAILED is what job storage holds
MarkedFailedForTerminalError(j) ==
    /\ jobStatus[j] = "FAILED"
    /\ \E k \in 1..Len(attemptLog[j]) :
          ~shouldBackoff(attemptLog[j][k]) /\ failedPc[j][k] = "done"

\* the status changes storage may see for a job
StatusStepAllowed(j) ==
    \/ jobStatus'[j] = jobStatus[j]
    \/ jobStatus[j] = "PENDING" /\ jobStatus'[j] = "RUNNING"
    \/ jobStatus[j] = "RUNNING" /\ jobStatus'[j] \in {"COMPLETED", "FAILED"}
    \/ /\ jobStatus[j] = "FAILED" /\ jobStatus'[j] \in {"PENDING", "RUNNING"}
       /\ attemptsMade'[j] <= DEFAULT_ATTEMPTS
       /\ ~MarkedFailedForTerminalError(j)

\* C31: the status of a job changes only along PENDING -> RUNNING ->
\* {COMPLETED | FAILED}, FAILED being left only by a retry within the ceiling
\* of DEFAULT_ATTEMPTS attempts; a job marked FAILED for an error that is not
\* backoff-eligible is not executed again, and a COMPLETED job keeps its status.
C31_StatusOnlyForward ==
    [][\A j \in Jobs :
          /\ StatusStepAllowed(j)
          /\ MarkedFailedForTerminalError(j) => attemptsMade'[j] = attemptsMade[j]
          /\ jobStatus[j] = "COMPLETED" => jobStatus'[j] = "COMPLETED"]_queueVars

\* ----------------------------------------------------------------------
\* the last attempt the queue allows the job has failed: the job has left the
\* queue on a rejection
StoppedBeingRetried(j) ==
    /\ bullState[j] = "removed"
    /\ attemptLog[j][Len(attemptLog[j])] # "completed"

\* C35: every job whose last allowed attempt fails is eventually marked FAILED
\* in job storage by the failure listener, whatever the error class and
\* whether or not the job was queued with the webhook backoff and attempts.
C35_LastFailureEventuallyMarked ==
    \A j \in Jobs : StoppedBeingRetried(j) ~> (jobStatus[j] = "FAILED")

\* ----------------------------------------------------------------------
WriteUseCases == {"RemoveIntegration", "PasswordReset", "RemoveMessage", "UpdateProfileEmail"}

\* execute() of a write use case has returned, its repository write made
WriteCompleted(u) ==
    /\ ucKind[u] \in WriteUseCases
    /\ ucPc[u] = "done" /\ ucResult[u] = "returned"
    /\ repoWrites[u] > 0

\* the cache holds the entry the use case invalidates, built from the
\* repository as it was before the use case's write
HoldsStaleEntry(u) ==
    /\ ReaderKey(CachedAs(ucKind[u])) \in DOMAIN cacheEntries
    /\ cachedValue[u] < repoWrites[u]

\* C36: next to a reader that fills the cache from the repository on a miss,
\* once a use case that pairs an invalidation with a repository write has
\* completed, the cache holds no entry for what it invalidated that reflects
\* the repository from before the write.
C36_NoStaleEntryAfterWrite ==
    \A u \in UseCaseCalls : WriteCompleted(u) => ~HoldsStaleEntry(u)

====
